---- MODULE Spec2Model ----
(***************************************************************************)
(* The Micro effect runtime (packages/effect/src/Micro.ts) as a state      *)
(* machine.  An effect is a tree of combinators; running it is JavaScript  *)
(* continuation passing, so the model keeps the JavaScript call stack of   *)
(* the current turn explicitly: every frame is the rest of one function    *)
(* activation, and one step of the model executes the frame on top.  When  *)
(* the stack is empty the host picks the next turn: a microtask, the       *)
(* earliest timer, or an abort issued by the program's owner.              *)
(***************************************************************************)
EXTENDS Integers, Sequences, FiniteSets, TLC

VARIABLES
  prog,        \* the effect handed to runFork (fixed during a behaviour)
  stack,       \* JavaScript call stack of the current turn, top first
  ctrls,       \* AbortControllers: [aborted, listeners]
  asyncs,      \* activations of async: [resumed, signal, env, k, cleanup]
  races,       \* activations of raceAll / raceAllFirst
  fes,         \* activations of forEachSequential / forEachConcurrent
  gens,        \* activations of gen: the iterator and the locals of the body
  handles,     \* HandleImpl objects
  scopes,      \* ScopeImpl objects
  timers,      \* pending setTimeout callbacks, in creation order
  microtasks,  \* the microtask queue
  now,         \* the host clock, in the unit of the delays
  aborts,      \* how many times the owner has called handle.unsafeAbort()
  log          \* observation: what ran and what was delivered, in order

vars == <<prog, stack, ctrls, asyncs, races, fes, gens, handles, scopes, timers,
          microtasks, now, aborts, log>>

----------------------------------------------------------------------------
\* Bounds of the model

\* how many times the owner of the root handle may call unsafeAbort()
MaxAborts == 1
\* how many times more the owner may call it where the calls are counted
MaxRepeats == 2
\* how many observers the owner may add to the root handle
MaxObservers == 2

----------------------------------------------------------------------------
\* Failures and results

FailureExpected(error) == [tag |-> "Expected", error |-> error]
FailureUnexpected(defect) == [tag |-> "Unexpected", defect |-> defect]
FailureAborted == [tag |-> "Aborted"]

Right(a) == [tag |-> "Right", right |-> a]
Left(failure) == [tag |-> "Left", left |-> failure]
ResultAborted == Left(FailureAborted)

\* a variable that holds no result yet (undefined)
undefined == [tag |-> "undefined"]
\* the value of type void
Void == undefined
\* a plain value of the program (a number or a string of the tests)
Val(n) == [tag |-> "val", n |-> n]
\* an array value
Arr(items) == [tag |-> "array", items |-> items]

----------------------------------------------------------------------------
\* The environment (MicroEnv)

Unbounded == [unbounded |-> TRUE, n |-> 0]
Concurrency(n) == [unbounded |-> FALSE, n |-> n]

\* Context.empty(): no service; the one tag of Micro.ts is MicroScope, whose
\* service is a scope (0: none)
Context_empty == [MicroScope |-> 0]
\* Context.add(context, MicroScope, scope) and Context.get(context, MicroScope)
Context_add(context, scope) == [context EXCEPT !.MicroScope = scope.id]
Context_get(context) == [tag |-> "scope", id |-> context.MicroScope]

EnvMake(controller) ==
  [currentAbortController |-> controller,
   currentAbortSignal |-> controller,
   currentInterruptible |-> TRUE,
   currentConcurrency |-> Unbounded,
   currentContext |-> Context_empty]

\* Env.get / Env.set / Env.mutate: an environment is a value; set and mutate
\* give a new one and leave the caller's untouched.
EnvGet(env, ref) == env[ref]
EnvSet(env, ref, value) == [env EXCEPT ![ref] = value]

----------------------------------------------------------------------------
\* Functions of the program (closures), applied by Apply below

\* (_) => value, where value is an effect or a plain value
constant(value) == [fn |-> "constant", value |-> value]
\* identity
identity == [fn |-> "identity"]
\* (a) => sync(() => { name(a); return a }) and (a) => sync(() => { name(a) })
noteArg(name) == [fn |-> "noteArg", name |-> name]
noteVoid(name) == [fn |-> "noteVoid", name |-> name]

\* A function of the user that is seen to be called: handler returns an
\* effect, pure a plain value
handler(name, effect) == [fn |-> "handler", name |-> name, effect |-> effect]
pure(name, ret) == [fn |-> "pure", name |-> name, ret |-> ret]

\* A thunk that records `name(arg)` as having run and returns ret
\* (the tests' `() => { done.push(i); return i }`)
Note(name, arg, ret) == [th |-> "note", name |-> name, arg |-> arg, ret |-> ret]
\* A thunk that records `name(arg)` and then throws error
Throw(name, arg, error) == [th |-> "throw", name |-> name, arg |-> arg, error |-> error]

----------------------------------------------------------------------------
\* Effects: constructors and combinators (the tree that `run` interprets)

succeed(a) == [op |-> "succeed", a |-> a]
fail(e) == [op |-> "fail", e |-> e]
die(defect) == [op |-> "die", defect |-> defect]
failWith(failure) == [op |-> "failWith", failure |-> failure]
sync(evaluate) == [op |-> "sync", evaluate |-> evaluate]
fromResult(self) == [op |-> "fromResult", self |-> self]
suspend(evaluate) == [op |-> "suspend", evaluate |-> evaluate]
void_ == succeed(Void)
async(register) == [op |-> "async", register |-> register]

flatMap(self, f) == [op |-> "flatMap", self |-> self, f |-> f]
map(self, f) == [op |-> "map", self |-> self, f |-> f]
asVoid(self) == map(self, constant(Void))
andThen(self, f) == [op |-> "andThen", self |-> self, f |-> f]
tap(self, f) == [op |-> "tap", self |-> self, f |-> f]
asResult(self) == [op |-> "asResult", self |-> self]

\* a catchAllFailure that hands only expected failures to f
catchAllFailure_expected(self, f) ==
  [op |-> "catchAllFailure", self |-> self, f |-> [fn |-> "catchAll_f", f |-> f]]
catchAllFailure(self, f) == [op |-> "catchAllFailure", self |-> self, f |-> f]
\* a catchAll that hands every failure to f
catchAll_any(self, f) == catchAllFailure(self, f)
\* catchAll(self, f) = catchAllFailure(self, (failure) =>
\*   failure._tag === "Expected" ? f(failure.error) : failWith(failure))
catchAll(self, f) == catchAllFailure(self, [fn |-> "catchAll_f", f |-> f])
matchFailureMicro(self, options) ==
  [op |-> "matchFailureMicro", self |-> self, onFailure |-> options.onFailure,
   onSuccess |-> options.onSuccess]
\* matchMicro: onFailure as in catchAll
matchMicro(self, options) ==
  matchFailureMicro(self, [onFailure |-> [fn |-> "catchAll_f", f |-> options.onFailure],
                           onSuccess |-> options.onSuccess])
\* match: onFailure: (error) => sync(() => options.onFailure(error)), and
\* likewise onSuccess
match(self, options) ==
  matchMicro(self, [onFailure |-> [fn |-> "match_f", f |-> options.onFailure],
                    onSuccess |-> [fn |-> "match_f", f |-> options.onSuccess]])
\* ignore(self) = matchMicro(self, { onFailure: die, onSuccess: () => void_ })
ignore(self) ==
  matchMicro(self, [onFailure |-> [fn |-> "die"], onSuccess |-> constant(void_)])

\* handle.await, handle.join and handle.abort: suspend of a thunk that reads
\* the result of the handle
HandleImpl_await(h) == suspend([th |-> "await", h |-> h])
HandleImpl_join(h) == suspend([th |-> "join", h |-> h])
HandleImpl_abort(h) == suspend([th |-> "abort", h |-> h])

raceAll(all) == [op |-> "raceAll", all |-> all]
raceAllFirst(all) == [op |-> "raceAllFirst", all |-> all]

fork(self) == [op |-> "fork", self |-> self]
forkDaemon(self) == [op |-> "forkDaemon", self |-> self]

\* makeScope = sync(() => new ScopeImpl())
makeScope == sync([th |-> "makeScope"])
\* scope.addFinalizer(finalizer) and scope.close(result): suspend of a thunk
\* that reads and changes the state of the scope
ScopeImpl_addFinalizer(scope, finalizer) ==
  suspend([th |-> "addFinalizer", scope |-> scope, finalizer |-> finalizer])
ScopeImpl_close(scope, result) ==
  suspend([th |-> "close", scope |-> scope, result |-> result])

\* scope.fork = sync(() => { ... new ScopeImpl() ... })
ScopeImpl_fork(scope) == sync([th |-> "fork", scope |-> scope])
\* function fin(result) of fork, and the finalizer the new scope is given
ScopeImpl_fork_fin(newScope) == [fn |-> "fork_fin", scope |-> newScope]
ScopeImpl_fork_remove(scope, fin) == [fn |-> "fork_remove", scope |-> scope, fin |-> fin]

\* scope = service(MicroScope)
scope_ == [op |-> "service"]
provideService(self, service) ==
  [op |-> "provideService", self |-> self, service |-> service]
\* scoped(self) = suspend(() => { const scope = new ScopeImpl()
\*   return onResult(provideService(self, MicroScope, scope),
\*                   (result) => scope.close(result)) })
scoped(self) == suspend([th |-> "scoped", self |-> self])

\* Either.all(results): the first Left, or Right of the array of the values
RECURSIVE Either_all(_)
Either_all(results) ==
  IF results = <<>> THEN Right(Arr(<<>>))
  ELSE IF Head(results).tag = "Left" THEN Head(results)
  ELSE LET rest == Either_all(Tail(results)) IN
       IF rest.tag = "Left" THEN rest
       ELSE Right(Arr(<<Head(results).right>> \o rest.right.items))

\* forEach(iterable, f, options); options.concurrency is Inherit, a number or
\* Unbounded (absent: 1)
Inherit == [inherit |-> TRUE]
forEach(iterable, f, options) ==
  [op |-> "forEach", iterable |-> iterable, f |-> f, options |-> options]
forEachSequential(iterable, f, options) ==
  [op |-> "forEachSequential", iterable |-> iterable, f |-> f, options |-> options]
forEachConcurrent(iterable, f, options) ==
  [op |-> "forEachConcurrent", iterable |-> iterable, f |-> f, options |-> options]

\* sleep: async whose register sets a timer and returns sync(clearTimeout)
\* gen(f), f the generator function
\*   function*() { let a = 0; a = yield* yields[1]; ...; a = yield* yields[n];
\*                 if (throws) throw 13; return a }
gen(f) == [op |-> "gen", f |-> f]
Generator(yields, throws) == [yields |-> yields, throws |-> throws]

sleep(millis) == async([reg |-> "sleep", millis |-> millis])
delay(self, millis) == andThen(sleep(millis), self)

uninterruptible(self) == [op |-> "uninterruptible", self |-> self]
uninterruptibleMask(f) == [op |-> "uninterruptibleMask", f |-> f]
interruptible(self) == [op |-> "interruptible", self |-> self]

\* onResult(self, f) =
\*   uninterruptibleMask(restore =>
\*     flatMap(asResult(restore(self)), result => andThen(f(result), fromResult(result))))
onResult(self, f) ==
  uninterruptibleMask([fn |-> "onResult_mask", self |-> self, f |-> f])
\* onInterrupt(self, f) = onResult(self, result => Aborted ? f(result) : void)
onInterrupt(self, f) == onResult(self, [fn |-> "onInterrupt_f", f |-> f])

\* acquireUseRelease(acquire, use, release) =
\*   uninterruptibleMask(restore => flatMap(acquire, a =>
\*     flatMap(asResult(restore(use(a))),
\*             result => andThen(release(a, result), fromResult(result)))))
\* an acquireUseRelease without the mask
acquireUseRelease_unmasked(acquire, use, release) ==
  flatMap(acquire, [fn |-> "acquireUseRelease_use", restore |-> identity,
                    use |-> use, release |-> release])
acquireUseRelease(acquire, use, release) ==
  uninterruptibleMask([fn |-> "acquireUseRelease_mask", acquire |-> acquire,
                       use |-> use, release |-> release])

\* an acquireRelease whose acquire is not made uninterruptible
acquireRelease_interruptible(acquire, release) ==
  flatMap(scope_, [fn |-> "acquireRelease_tap", acquire |-> acquire,
                  release |-> release])
\* acquireRelease(acquire, release) =
\*   uninterruptible(flatMap(scope, (scope) =>
\*     tap(acquire, (a) => scope.addFinalizer((result) => release(a, result)))))
acquireRelease(acquire, release) ==
  uninterruptible(flatMap(scope_, [fn |-> "acquireRelease_tap", acquire |-> acquire,
                                  release |-> release]))

\* (item) => item.effect: each item of a forEach of the model carries the effect
\* f makes of it; an item whose effect is no effect makes f throw item.effect.error
perform == [fn |-> "perform"]
Item(n, effect) == [tag |-> "item", n |-> n, effect |-> effect]
Throws(f, a) == f.fn = "perform" /\ "error" \in DOMAIN a.effect

isMicro(u) == "op" \in DOMAIN u
isFunction(u) == "fn" \in DOMAIN u

\* (scope) => scope.addFinalizer(f1).pipe(andThen(scope.addFinalizer(f2)), ...,
\*            andThen(scope.close(result)))
RECURSIVE addFinalizers_close(_, _, _)
addFinalizers_close(scope, finalizers, result) ==
  IF finalizers = <<>> THEN ScopeImpl_close(scope, result)
  ELSE andThen(ScopeImpl_addFinalizer(scope, Head(finalizers)),
               addFinalizers_close(scope, Tail(finalizers), result))

\* (scope) => scope.addFinalizer(f1).pipe(andThen(scope.addFinalizer(f2)), ...,
\*            andThen(effect))
RECURSIVE addFinalizers_andThen(_, _, _)
addFinalizers_andThen(s, finalizers, effect) ==
  IF finalizers = <<>> THEN effect
  ELSE andThen(ScopeImpl_addFinalizer(s, Head(finalizers)),
               addFinalizers_andThen(s, Tail(finalizers), effect))

\* (scope) => fork of each of the calls op1, op2, ... of the scope in a handle
\* of its own, one after the other; call number j notes that it starts
RECURSIVE scopeCalls(_, _, _)
scopeCalls(s, calls, j) ==
  IF calls = <<>> THEN void_
  ELSE LET c == Head(calls)
           call == IF c.op = "add"
                     THEN ScopeImpl_addFinalizer(s, [fn |-> "finalizer", n |-> c.n,
                                                     async |-> FALSE, ok |-> TRUE])
                     ELSE ScopeImpl_close(s, c.r)
       IN andThen(forkDaemon(andThen(sync(Note("call", j, Void)), call)),
                  scopeCalls(s, Tail(calls), j + 1))

\* the steps made on a scope s and the scopes forked from it (s + 1, s + 2, ...
\* in the order of the forks, n so far), each step forked in a handle of its
\* own: fork s, add a finalizer that sleeps to the last forked scope, close
\* the last forked scope with Err(8), or close s with Ok(0)
RECURSIVE scopeSteps(_, _, _, _)
scopeSteps(s, steps, j, n) ==
  IF steps = <<>> THEN void_
  ELSE LET step ==
             CASE Head(steps) = "fork" -> ScopeImpl_fork(s)
               [] Head(steps) = "add" ->
                    ScopeImpl_addFinalizer(s + n, [fn |-> "finalizer", n |-> s + n,
                                                   async |-> TRUE, ok |-> TRUE])
               [] Head(steps) = "closeForked" ->
                    ScopeImpl_close(s + n, Left(FailureExpected(Val(8))))
               [] Head(steps) = "close" -> ScopeImpl_close(s, Right(Val(0)))
       IN andThen(forkDaemon(andThen(sync(Note("step", j, Void)), step)),
                  scopeSteps(s, Tail(steps), j + 1,
                             IF Head(steps) = "fork" THEN n + 1 ELSE n))

\* The value of calling function f with argument a.  A function of two
\* arguments (release) takes them as the pair [a, result].
RECURSIVE Apply(_, _)
Apply(f, a) ==
  CASE f.fn = "constant" -> f.value
    [] f.fn = "identity" -> a
    [] f.fn = "interruptible" -> interruptible(a)
    [] f.fn = "succeed" -> succeed(a)
    [] f.fn = "perform" -> a.effect
    [] f.fn = "close_f" -> asResult(Apply(a, f.result))
    [] f.fn = "close_all" -> asVoid(fromResult(Either_all(a.items)))
    [] f.fn = "noteArg" -> sync(Note(f.name, a, a))
    [] f.fn = "noteVoid" -> sync(Note(f.name, a, Void))
    [] f.fn = "onResult_mask" ->
         flatMap(asResult(Apply(a, f.self)), [fn |-> "onResult_k", f |-> f.f])
    [] f.fn = "onResult_k" -> andThen(Apply(f.f, a), fromResult(a))
    [] f.fn = "onInterrupt_f" ->
         IF a.tag = "Left" /\ a.left.tag = "Aborted" THEN Apply(f.f, a) ELSE void_
    [] f.fn = "acquireUseRelease_mask" ->
         flatMap(f.acquire, [fn |-> "acquireUseRelease_use", restore |-> a,
                             use |-> f.use, release |-> f.release])
    [] f.fn = "acquireUseRelease_use" ->
         flatMap(asResult(Apply(f.restore, Apply(f.use, a))),
                 [fn |-> "acquireUseRelease_release", a |-> a, release |-> f.release])
    [] f.fn = "use" ->
         andThen(sync(Note("use", a, a)),
                 LET self == CASE f.outcome = "Ok" -> succeed(a)
                               [] f.outcome = "Expected" -> fail(Val(1))
                               [] f.outcome = "Unexpected" -> die(Val(2))
                               [] f.outcome = "Aborted" -> failWith(FailureAborted)
                 IN IF f.async THEN delay(self, 1) ELSE self)
    [] f.fn = "withScope" -> addFinalizers_close(a.id, f.finalizers, f.result)
    [] f.fn = "finalizer" ->
         andThen(sync(Note("finalizer", [n |-> f.n, result |-> a], Void)),
                 LET self == IF f.ok THEN void_ ELSE fail(Val(f.n)) IN
                 IF f.async THEN delay(self, 1) ELSE self)
    [] f.fn = "release" ->
         IF f.async THEN andThen(sync(Note("release", a, Void)), sleep(1))
         ELSE sync(Note("release", a, Void))
    [] f.fn = "acquireUseRelease_release" ->
         andThen(Apply(f.release, [a |-> f.a, result |-> a]), fromResult(a))
    [] f.fn = "scoped_close" -> ScopeImpl_close(f.scope, a)
    [] f.fn = "handler" -> f.effect
    [] f.fn = "fromResult" -> fromResult(a)
    [] f.fn = "forkParent" ->
         LET last == IF f.abort THEN sync([th |-> "unsafeAbort", h |-> a.h]) ELSE void_
         IN andThen(sync(Note("got", a, Void)),
                    IF f.ms = 0 THEN last ELSE andThen(sleep(f.ms), last))
    [] f.fn = "pure" -> f.ret
    [] f.fn = "die" -> die(a)
    [] f.fn = "catchAll_f" ->
         IF a.tag = "Expected" THEN Apply(f.f, a.error) ELSE failWith(a)
    [] f.fn = "match_f" -> sync([th |-> "apply", f |-> f.f, a |-> a])
    [] f.fn = "addFinalizers" -> addFinalizers_andThen(a.id, f.finalizers, f.effect)
    [] f.fn = "acquireRelease_tap" ->
         tap(f.acquire, [fn |-> "acquireRelease_add", scope |-> a.id,
                         release |-> f.release])
    [] f.fn = "acquireRelease_add" ->
         ScopeImpl_addFinalizer(f.scope, [fn |-> "acquireRelease_release", a |-> a,
                                          release |-> f.release])
    [] f.fn = "acquireRelease_release" ->
         Apply(f.release, [a |-> f.a, result |-> a])
    [] f.fn = "scopeCalls" -> scopeCalls(a.id, f.calls, 1)
    [] f.fn = "scopeSteps" -> scopeSteps(a.id, f.steps, 1, 0)
    [] f.fn = "fork_fin" -> ScopeImpl_close(f.scope, a)
    [] f.fn = "fork_remove" ->
         sync([th |-> "unsafeRemoveFinalizer", scope |-> f.scope, finalizer |-> f.fin])
    [] f.fn = "await" -> HandleImpl_await(a.h)
    [] f.fn = "awaitParent" ->
         LET op == CASE f.mode = "abort" -> HandleImpl_abort(a.h)
                     [] f.mode = "await" -> HandleImpl_await(a.h)
                     [] f.mode = "join" -> HandleImpl_join(a.h)
             observe == onResult(op, noteArg("after"))
         IN IF f.ms = 0 THEN observe ELSE andThen(sleep(f.ms), observe)

\* Observation: the calls of functions of the user that calling f with a makes
RECURSIVE Calls(_, _)
Calls(f, a) ==
  CASE f.fn \in {"handler", "pure"} -> <<[ev |-> "eval", name |-> f.name, arg |-> a]>>
    [] f.fn = "catchAll_f" -> IF a.tag = "Expected" THEN Calls(f.f, a.error) ELSE <<>>
    [] OTHER -> <<>>

----------------------------------------------------------------------------
\* Frames of the call stack and continuations

Top == Head(stack)
Rest == Tail(stack)
Running(pc) == stack # <<>> /\ Top.pc = pc
Body(op) == stack # <<>> /\ Top.pc = "body" /\ Top.e.op = op
Calling(k) == stack # <<>> /\ Top.pc = "call" /\ Top.k.k = k

\* effect[runSymbol](env, onResult)
RunF(e, env, k) == [pc |-> "run", e |-> e, env |-> env, k |-> k]
\* onResult(r) for the continuation k
CallF(k, r) == [pc |-> "call", k |-> k, r |-> r]
\* the function passed to make / unsafeMake, about to run
BodyF(e, env, k) == [pc |-> "body", e |-> e, env |-> env, k |-> k]
\* an open `try { ... } catch (err) { onResult(Left(Unexpected(err))) }` of make
TryF(k) == [pc |-> "try", of |-> "make", k |-> k]
\* the open try of the loop of forEachSequential (tick) or forEachConcurrent (pump)
TryLoopF(of, id) == [pc |-> "try", of |-> of, id |-> id]
\* an exception travelling up the stack
ThrowF(error) == [pc |-> "throw", error |-> error]
\* controller.abort()
AbortF(controller) == [pc |-> "abort", controller |-> controller]
\* signal.removeEventListener("abort", listener)
RemoveListenerF(signal, listener) ==
  [pc |-> "removeEventListener", signal |-> signal, listener |-> listener]

\* Listeners are the frames that run when the event is dispatched
async_onAbortL(id) == [pc |-> "async_onAbort", id |-> id]
forkSignal_onAbortL(controller, parentSignal) ==
  [pc |-> "forkSignal_onAbort", controller |-> controller, parentSignal |-> parentSignal]
unsafeAbortL(h) == [pc |-> "unsafeAbort", h |-> h]

Has(seq, x) == \E i \in 1..Len(seq) : seq[i] = x
Without(seq, x) == SelectSeq(seq, LAMBDA y : y # x)

\* signal.addEventListener: a listener already registered is not added again
addEventListener(cs, signal, listener) ==
  IF Has(cs[signal].listeners, listener) THEN cs
  ELSE [cs EXCEPT ![signal].listeners = Append(@, listener)]
removeEventListener(cs, signal, listener) ==
  [cs EXCEPT ![signal].listeners = Without(@, listener)]
\* new AbortController()
NewController == [aborted |-> FALSE, listeners |-> <<>>]

\* everything but the stack
others == <<prog, ctrls, asyncs, races, fes, gens, handles, scopes, timers,
            microtasks, now, aborts, log>>
\* replace the running frame by frames, and change nothing else
Goto(frames) == stack' = frames \o Rest /\ UNCHANGED others

----------------------------------------------------------------------------
\* make, unsafeMake, unsafeMakeNoAbort

MakeOps == {"succeed", "fail", "die", "failWith", "sync", "fromResult",
            "suspend", "async", "gen", "flatMap", "map", "andThen", "tap",
            "asResult", "raceAll", "raceAllFirst", "interruptible", "forEach",
            "forEachSequential", "fork", "service", "provideService",
            "catchAllFailure", "matchFailureMicro", "forkDaemon"}
NoAbortOps == {"uninterruptible", "uninterruptibleMask"}
UnsafeOps == {"forEachConcurrent"}

\* a checkpoint that looks at the signal only
isAborted_signal(env) == ctrls[env.currentAbortSignal].aborted
\* the cancellation checkpoint of make: interruptible and already aborted
isAborted(env) ==
  env.currentInterruptible /\ ctrls[env.currentAbortSignal].aborted

make ==
  /\ Running("run") /\ Top.e.op \in MakeOps
  /\ IF isAborted(Top.env)
       THEN Goto(<<CallF(Top.k, ResultAborted)>>)
       ELSE Goto(<<BodyF(Top.e, Top.env, Top.k), TryF(Top.k)>>)

unsafeMakeNoAbort ==
  /\ Running("run") /\ Top.e.op \in NoAbortOps
  /\ Goto(<<BodyF(Top.e, Top.env, Top.k), TryF(Top.k)>>)

unsafeMake ==
  /\ Running("run") /\ Top.e.op \in UnsafeOps
  /\ Goto(<<BodyF(Top.e, Top.env, Top.k)>>)

\* the try block of make ended without an exception
try_end == Running("try") /\ Goto(<<>>)

\* An exception leaves every activation up to the innermost open try, whose
\* catch delivers Left(Unexpected(err)); with no try open, the turn ends.
RECURSIVE Unwind(_, _)
Unwind(frames, error) ==
  IF frames = <<>> THEN <<>>
  ELSE IF Head(frames).pc = "try"
    THEN (IF Head(frames).of = "make"
            THEN <<CallF(Head(frames).k, Left(FailureUnexpected(error)))>>
            ELSE <<[pc |-> "catch", of |-> Head(frames).of, id |-> Head(frames).id,
                    error |-> error]>>)
         \o Tail(frames)
    ELSE Unwind(Tail(frames), error)

catch ==
  /\ Running("throw")
  /\ stack' = Unwind(Rest, Top.error)
  /\ UNCHANGED others

----------------------------------------------------------------------------
\* constructors

run_succeed == Body("succeed") /\ Goto(<<CallF(Top.k, Right(Top.e.a))>>)
run_fail == Body("fail") /\ Goto(<<CallF(Top.k, Left(FailureExpected(Top.e.e)))>>)
run_die == Body("die") /\ Goto(<<CallF(Top.k, Left(FailureUnexpected(Top.e.defect)))>>)
run_failWith == Body("failWith") /\ Goto(<<CallF(Top.k, Left(Top.e.failure))>>)
\* a fromResult that delivers its argument as a success
run_fromResult_succeed ==
  Body("fromResult") /\ Goto(<<CallF(Top.k, Right(Top.e.self))>>)
run_fromResult == Body("fromResult") /\ Goto(<<CallF(Top.k, Top.e.self)>>)

\* Observation (not part of the program): what evaluate() of a sync ran,
\* which child a combinator started, which child reported what, and what the
\* combinator passed to its own onResult
Noted(th) == [ev |-> "eval", name |-> th.name, arg |-> th.arg]
Started(of, id, child) == [ev |-> "start", of |-> of, id |-> id, child |-> child]
Reported(of, id, child, r) ==
  [ev |-> "done", of |-> of, id |-> id, child |-> child, r |-> r]
Delivered(of, id, r) == [ev |-> "onResult", of |-> of, id |-> id, r |-> r]

\* sync: onResult(Right(evaluate()))
run_sync ==
  /\ Body("sync")
  /\ Top.e.evaluate.th \in {"note", "throw", "clearTimeout", "apply"}
  /\ LET th == Top.e.evaluate IN
     CASE th.th = "note" ->
            /\ log' = Append(log, Noted(th))
            /\ stack' = <<CallF(Top.k, Right(th.ret))>> \o Rest
            /\ UNCHANGED timers
       [] th.th = "throw" ->
            /\ log' = Append(log, Noted(th))
            /\ stack' = <<ThrowF(th.error)>> \o Rest
            /\ UNCHANGED timers
       [] th.th = "apply" ->
            /\ log' = log \o Calls(th.f, th.a)
            /\ stack' = <<CallF(Top.k, Right(Apply(th.f, th.a)))>> \o Rest
            /\ UNCHANGED timers
       [] th.th = "clearTimeout" ->
            /\ timers' = SelectSeq(timers, LAMBDA t : t.id # th.timer)
            /\ stack' = <<CallF(Top.k, Right(Void))>> \o Rest
            /\ UNCHANGED log
  /\ UNCHANGED <<prog, ctrls, asyncs, races, fes, gens, handles, scopes, microtasks,
                 now, aborts>>

\* suspend: evaluate()[runSymbol](env, onResult)
run_suspend ==
  /\ Body("suspend")
  /\ Top.e.evaluate.th = "lazy"
  /\ Goto(<<RunF(Top.e.evaluate.effect, Top.env, Top.k)>>)

----------------------------------------------------------------------------
\* mapping and sequencing


run_flatMap ==
  /\ Body("flatMap")
  /\ Goto(<<RunF(Top.e.self, Top.env,
                 [k |-> "flatMap", f |-> Top.e.f, env |-> Top.env, next |-> Top.k])>>)

flatMap_onResult ==
  /\ Calling("flatMap")
  /\ IF Top.r.tag = "Left"
       THEN Goto(<<CallF(Top.k.next, Top.r)>>)
       ELSE Goto(<<RunF(Apply(Top.k.f, Top.r.right), Top.k.env, Top.k.next)>>)

run_map ==
  /\ Body("map")
  /\ Goto(<<RunF(Top.e.self, Top.env, [k |-> "map", f |-> Top.e.f, next |-> Top.k])>>)

\* onResult(Either.map(result, f))
map_onResult ==
  /\ Calling("map")
  /\ IF Top.r.tag = "Left"
       THEN Goto(<<CallF(Top.k.next, Top.r)>>)
       ELSE Goto(<<CallF(Top.k.next, Right(Apply(Top.k.f, Top.r.right)))>>)

run_andThen ==
  /\ Body("andThen")
  /\ Goto(<<RunF(Top.e.self, Top.env,
                 [k |-> "andThen", f |-> Top.e.f, env |-> Top.env, next |-> Top.k])>>)

\* value = isMicro(f) ? f : typeof f === "function" ? f(result.right) : f
andThen_value(f, a) ==
  IF isMicro(f) THEN f ELSE IF isFunction(f) THEN Apply(f, a) ELSE f

andThen_onResult ==
  /\ Calling("andThen")
  /\ IF Top.r.tag = "Left"
       THEN Goto(<<CallF(Top.k.next, Top.r)>>)
       ELSE LET value == andThen_value(Top.k.f, Top.r.right) IN
            IF isMicro(value)
              THEN Goto(<<RunF(value, Top.k.env, Top.k.next)>>)
              ELSE Goto(<<CallF(Top.k.next, Right(value))>>)

run_tap ==
  /\ Body("tap")
  /\ Goto(<<RunF(Top.e.self, Top.env,
                 [k |-> "tap", f |-> Top.e.f, env |-> Top.env, next |-> Top.k])>>)

tap_onResult ==
  /\ Calling("tap")
  /\ IF Top.r.tag = "Left"
       THEN Goto(<<CallF(Top.k.next, Top.r)>>)
       ELSE LET value == andThen_value(Top.k.f, Top.r.right) IN
            IF isMicro(value)
              THEN Goto(<<RunF(value, Top.k.env, [k |-> "tap2", selfResult |-> Top.r,
                                                      next |-> Top.k.next])>>)
              ELSE Goto(<<CallF(Top.k.next, Top.r)>>)

tap_onTapResult ==
  /\ Calling("tap2")
  /\ IF Top.r.tag = "Left"
       THEN Goto(<<CallF(Top.k.next, Top.r)>>)
       ELSE Goto(<<CallF(Top.k.next, Top.k.selfResult)>>)

run_asResult ==
  Body("asResult") /\ Goto(<<RunF(Top.e.self, Top.env, [k |-> "asResult", next |-> Top.k])>>)

\* an asResult that passes the result on as it is
asResult_onResult_same ==
  Calling("asResult") /\ Goto(<<CallF(Top.k.next, Top.r)>>)

asResult_onResult ==
  Calling("asResult") /\ Goto(<<CallF(Top.k.next, Right(Top.r))>>)

----------------------------------------------------------------------------
\* error handling

run_catchAllFailure ==
  /\ Body("catchAllFailure")
  /\ Goto(<<RunF(Top.e.self, Top.env,
                 [k |-> "catchAllFailure", f |-> Top.e.f, env |-> Top.env,
                  next |-> Top.k])>>)

\* the callback of catchAllFailure: f(result.left)[runSymbol](env, onResult)
catchAllFailure_onResult ==
  /\ Calling("catchAllFailure")
  /\ IF Top.r.tag = "Right"
       THEN /\ log' = Append(log, Reported("catchAllFailure", 0, 0, Top.r))
            /\ stack' = <<CallF(Top.k.next, Top.r)>> \o Rest
       ELSE /\ log' = Append(log, Reported("catchAllFailure", 0, 0, Top.r))
                        \o Calls(Top.k.f, Top.r.left)
            /\ stack' = <<RunF(Apply(Top.k.f, Top.r.left), Top.k.env, Top.k.next)>>
                         \o Rest
  /\ UNCHANGED <<prog, ctrls, asyncs, races, fes, gens, handles, scopes, timers,
                 microtasks, now, aborts>>

run_matchFailureMicro ==
  /\ Body("matchFailureMicro")
  /\ Goto(<<RunF(Top.e.self, Top.env,
                 [k |-> "matchFailureMicro", onFailure |-> Top.e.onFailure,
                  onSuccess |-> Top.e.onSuccess, env |-> Top.env, next |-> Top.k])>>)

\* the callback of matchFailureMicro: within a try whose catch delivers
\* Left(Unexpected(err)), next = onFailure(result.left) or onSuccess(result.right),
\* then next[runSymbol](env, onResult)
matchFailureMicro_onResult ==
  /\ Calling("matchFailureMicro")
  /\ LET f == IF Top.r.tag = "Left" THEN Top.k.onFailure ELSE Top.k.onSuccess
         a == IF Top.r.tag = "Left" THEN Top.r.left ELSE Top.r.right
     IN /\ log' = Append(log, Reported("matchFailureMicro", 0, 0, Top.r)) \o Calls(f, a)
        /\ stack' = <<RunF(Apply(f, a), Top.k.env, Top.k.next), TryF(Top.k.next)>>
                     \o Rest
  /\ UNCHANGED <<prog, ctrls, asyncs, races, fes, gens, handles, scopes, timers,
                 microtasks, now, aborts>>

----------------------------------------------------------------------------
\* async, sleep

\* the cleanup effect register returns: sleep returns sync(() => clearTimeout(timeout))
clearTimeout(timer) == [th |-> "clearTimeout", timer |-> timer]

\* async: register(resume, signal), then listen for the abort unless resumed
run_async ==
  /\ Body("async")
  /\ Top.e.register.reg = "sleep"
  /\ LET id == Len(asyncs) + 1
         signal == EnvGet(Top.env, "currentAbortSignal")
     IN /\ asyncs' = Append(asyncs, [resumed |-> FALSE, signal |-> signal,
                                     env |-> Top.env, k |-> Top.k,
                                     cleanup |-> sync(clearTimeout(id))])
        /\ timers' = Append(timers, [id |-> id, due |-> now + Top.e.register.millis])
        /\ ctrls' = addEventListener(ctrls, signal, async_onAbortL(id))
  /\ stack' = Rest
  /\ UNCHANGED <<prog, races, fes, gens, handles, scopes, microtasks, now, aborts, log>>

ResumeF(id, effect) == [pc |-> "resume", id |-> id, effect |-> effect]

\* function onAbort() of async
async_onAbort ==
  /\ Running("async_onAbort")
  /\ LET cleanup == asyncs[Top.id].cleanup IN
     IF isMicro(cleanup)
       THEN Goto(<<ResumeF(Top.id, uninterruptible(andThen(cleanup, failWith(FailureAborted))))>>)
       ELSE Goto(<<ResumeF(Top.id, failWith(FailureAborted))>>)

\* a resume that does not test `resumed`
async_resume_every ==
  /\ Running("resume")
  /\ LET a == asyncs[Top.id] IN
     /\ asyncs' = [asyncs EXCEPT ![Top.id].resumed = TRUE]
     /\ ctrls' = removeEventListener(ctrls, a.signal, async_onAbortL(Top.id))
     /\ stack' = <<RunF(Top.effect, a.env, a.k)>> \o Rest
     /\ UNCHANGED <<prog, races, fes, gens, handles, scopes, timers, microtasks,
                    now, aborts, log>>

\* function resume(effect) of async
async_resume ==
  /\ Running("resume")
  /\ LET a == asyncs[Top.id] IN
     IF a.resumed
       THEN Goto(<<>>)
       ELSE /\ asyncs' = [asyncs EXCEPT ![Top.id].resumed = TRUE]
            /\ ctrls' = removeEventListener(ctrls, a.signal, async_onAbortL(Top.id))
            /\ stack' = <<RunF(Top.effect, a.env, a.k)>> \o Rest
            /\ UNCHANGED <<prog, races, fes, gens, handles, scopes, timers, microtasks,
                           now, aborts, log>>

----------------------------------------------------------------------------
\* The host: AbortController, timers, microtasks

\* controller.abort(), were every call to dispatch "abort"
AbortController_abort_again ==
  /\ Running("abort")
  /\ LET c == Top.controller IN
     IF FALSE
       THEN Goto(<<>>)
       ELSE /\ ctrls' = [ctrls EXCEPT ![c].aborted = TRUE]
            /\ stack' = <<[pc |-> "dispatch", signal |-> c,
                           pending |-> ctrls[c].listeners]>> \o Rest
            /\ UNCHANGED <<prog, asyncs, races, fes, gens, handles, scopes, timers,
                           microtasks, now, aborts, log>>

\* controller.abort(): the first call sets the flag and dispatches "abort" to
\* the listeners registered at that moment; later calls do nothing
AbortController_abort ==
  /\ Running("abort")
  /\ LET c == Top.controller IN
     IF ctrls[c].aborted
       THEN Goto(<<>>)
       ELSE /\ ctrls' = [ctrls EXCEPT ![c].aborted = TRUE]
            /\ stack' = <<[pc |-> "dispatch", signal |-> c,
                           pending |-> ctrls[c].listeners]>> \o Rest
            /\ UNCHANGED <<prog, asyncs, races, fes, gens, handles, scopes, timers,
                           microtasks, now, aborts, log>>

\* the dispatch loop: a listener removed meanwhile is not called
dispatchEvent ==
  /\ Running("dispatch")
  /\ IF Top.pending = <<>>
       THEN Goto(<<>>)
       ELSE LET l == Head(Top.pending)
                more == [Top EXCEPT !.pending = Tail(@)]
            IN IF Has(ctrls[Top.signal].listeners, l)
                 THEN Goto(<<l, more>>)
                 ELSE Goto(<<more>>)

signal_removeEventListener ==
  /\ Running("removeEventListener")
  /\ ctrls' = removeEventListener(ctrls, Top.signal, Top.listener)
  /\ stack' = Rest
  /\ UNCHANGED <<prog, asyncs, races, fes, gens, handles, scopes, timers, microtasks,
                 now, aborts, log>>

Idle == stack = <<>>

\* the index of the timer that fires next: the earliest, the first set among equals
NextTimer ==
  CHOOSE i \in 1..Len(timers) :
    \A j \in 1..Len(timers) :
      timers[i].due < timers[j].due \/ (timers[i].due = timers[j].due /\ i <= j)

\* the callback of a timer: that of sleep is resume(void_), that of another
\* register is a function that records its call and then calls resume
setTimeout_fire ==
  /\ Idle /\ microtasks = <<>> /\ timers # <<>>
  /\ LET t == timers[NextTimer] IN
     /\ now' = t.due
     /\ timers' = SelectSeq(timers, LAMBDA u : u.id # t.id)
     /\ stack' = <<IF "effect" \in DOMAIN t
                     THEN [pc |-> "callback", id |-> t.async, effect |-> t.effect]
                     ELSE ResumeF(t.id, void_)>>
  /\ UNCHANGED <<prog, ctrls, asyncs, races, fes, gens, handles, scopes, microtasks,
                 aborts, log>>

\* the next microtask
queueMicrotask_run ==
  /\ Idle /\ microtasks # <<>>
  /\ stack' = Head(microtasks)
  /\ microtasks' = Tail(microtasks)
  /\ UNCHANGED <<prog, ctrls, asyncs, races, fes, gens, handles, scopes, timers, now,
                 aborts, log>>

----------------------------------------------------------------------------
\* Handle, runFork

emitK(h) == [k |-> "emit", h |-> h]

\* new HandleImpl(parentSignal, controller?)
HandleImpl(parentSignal, controller, isRoot) ==
  [result |-> undefined, observers |-> <<>>, controller |-> controller,
   isRoot |-> isRoot, parentSignal |-> parentSignal]

\* handle.emit(result), were it not to test this._result
HandleImpl_emit_overwrite ==
  /\ Calling("emit")
  /\ LET h == Top.k.h
         self == handles[h]
     IN /\ log' = Append(log, [ev |-> "emit", h |-> h, r |-> Top.r])
        /\ IF FALSE
             THEN /\ stack' = Rest
                  /\ UNCHANGED handles
             ELSE /\ handles' = [handles EXCEPT ![h].result = Top.r]
                  /\ stack' =
                       (IF self.isRoot THEN <<>>
                        ELSE <<RemoveListenerF(self.parentSignal, unsafeAbortL(h))>>)
                       \o <<AbortF(self.controller)>>
                       \o [i \in 1..Len(self.observers) |->
                             [pc |-> self.observers[i].pc, id |-> self.observers[i].id,
                              r |-> Top.r]]
                       \o <<[pc |-> "observers_clear", h |-> h]>>
                       \o Rest
  /\ UNCHANGED <<prog, ctrls, asyncs, races, fes, gens, scopes, timers, microtasks,
                 now, aborts>>

\* handle.emit(result), called by the callback runFork and fork pass to the effect
HandleImpl_emit ==
  /\ Calling("emit")
  /\ LET h == Top.k.h
         self == handles[h]
     IN /\ log' = Append(log, [ev |-> "emit", h |-> h, r |-> Top.r])
        /\ IF self.result # undefined
             THEN /\ stack' = Rest
                  /\ UNCHANGED handles
             ELSE /\ handles' = [handles EXCEPT ![h].result = Top.r]
                  /\ stack' =
                       (IF self.isRoot THEN <<>>
                        ELSE <<RemoveListenerF(self.parentSignal, unsafeAbortL(h))>>)
                       \o <<AbortF(self.controller)>>
                       \o [i \in 1..Len(self.observers) |->
                             [pc |-> self.observers[i].pc, id |-> self.observers[i].id,
                              r |-> Top.r]]
                       \o <<[pc |-> "observers_clear", h |-> h]>>
                       \o Rest
  /\ UNCHANGED <<prog, ctrls, asyncs, races, fes, gens, scopes, timers, microtasks,
                 now, aborts>>

\* this.observers.clear(), the last statement of emit
HandleImpl_emit_clear ==
  /\ Running("observers_clear")
  /\ handles' = [handles EXCEPT ![Top.h].observers = <<>>]
  /\ stack' = Rest
  /\ UNCHANGED <<prog, ctrls, asyncs, races, fes, gens, scopes, timers, microtasks,
                 now, aborts, log>>

\* handle.addObserver(observer)
HandleImpl_addObserver ==
  /\ Running("addObserver")
  /\ LET self == handles[Top.h] IN
     IF self.result # undefined
       THEN /\ stack' = <<[pc |-> Top.observer.pc, id |-> Top.observer.id,
                           r |-> self.result]>> \o Rest
            /\ UNCHANGED handles
       ELSE /\ handles' = [handles EXCEPT ![Top.h].observers =
                             IF Has(@, Top.observer) THEN @ ELSE Append(@, Top.observer)]
            /\ stack' = Rest
  /\ UNCHANGED <<prog, ctrls, asyncs, races, fes, gens, scopes, timers, microtasks,
                 now, aborts, log>>

\* unsafeAbort = () => { this._controller.abort() }
HandleImpl_unsafeAbort ==
  Running("unsafeAbort") /\ Goto(<<AbortF(handles[Top.h].controller)>>)

\* the owner of the handle runFork returned calls handle.unsafeAbort()
owner_unsafeAbort ==
  /\ Idle /\ aborts < MaxAborts
  /\ aborts' = aborts + 1
  /\ stack' = <<unsafeAbortL(1)>>
  /\ log' = Append(log, [ev |-> "unsafeAbort", h |-> 1])
  /\ UNCHANGED <<prog, ctrls, asyncs, races, fes, gens, handles, scopes, timers,
                 microtasks, now>>

\* the owner calls handle.unsafeAbort() once more
owner_unsafeAbort_again ==
  /\ Idle /\ aborts >= MaxAborts /\ aborts < MaxAborts + MaxRepeats
  /\ aborts' = aborts + 1
  /\ stack' = <<unsafeAbortL(1)>>
  /\ log' = Append(log, [ev |-> "unsafeAbort", h |-> 1])
  /\ UNCHANGED <<prog, ctrls, asyncs, races, fes, gens, handles, scopes, timers,
                 microtasks, now>>

\* the owner calls handle.addObserver(observer) with a function of its own
\* that it has not registered before
owner_addObserver ==
  /\ Idle
  /\ LET n == Cardinality({ i \in DOMAIN log : log[i].ev = "addObserver" }) IN
     /\ n < MaxObservers
     /\ stack' = <<[pc |-> "addObserver", h |-> 1,
                    observer |-> [pc |-> "observer", id |-> n + 1]]>>
     /\ log' = Append(log, [ev |-> "addObserver", h |-> 1, id |-> n + 1])
  /\ UNCHANGED <<prog, ctrls, asyncs, races, fes, gens, handles, scopes, timers,
                 microtasks, now, aborts>>

\* observer(result), the function of the owner: it records what it is given
owner_observer ==
  /\ Running("observer")
  /\ log' = Append(log, [ev |-> "observed", id |-> Top.id, r |-> Top.r])
  /\ stack' = Rest
  /\ UNCHANGED <<prog, ctrls, asyncs, races, fes, gens, handles, scopes, timers,
                 microtasks, now, aborts>>

----------------------------------------------------------------------------
\* forkSignal, raceAll

\* forkSignal(env): a new controller that the parent signal aborts
forkSignal_ctrls(env) ==
  addEventListener(Append(ctrls, NewController),
                   EnvGet(env, "currentAbortSignal"),
                   forkSignal_onAbortL(Len(ctrls) + 1, EnvGet(env, "currentAbortSignal")))
forkSignal_env(env) ==
  EnvSet(EnvSet(env, "currentAbortController", Len(ctrls) + 1),
         "currentAbortSignal", Len(ctrls) + 1)
forkSignal_listener(env) ==
  forkSignal_onAbortL(Len(ctrls) + 1, EnvGet(env, "currentAbortSignal"))

\* function onAbort() of forkSignal
forkSignal_onAbort ==
  /\ Running("forkSignal_onAbort")
  /\ Goto(<<AbortF(Top.controller),
            RemoveListenerF(Top.parentSignal,
                            forkSignal_onAbortL(Top.controller, Top.parentSignal))>>)

\* an activation of tick or pump, or of a part of one
LoopF(pc, id) == [pc |-> pc, id |-> id]
raceAll_forF(id, inc) == [pc |-> "raceAll_for", id |-> id, inc |-> inc]

run_raceAll ==
  /\ Body("raceAll")
  /\ races' = Append(races,
       [of |-> "raceAll", effects |-> Top.e.all, len |-> Len(Top.e.all),
        index |-> 0, done |-> 0, result |-> undefined, failures |-> <<>>,
        envWithSignal |-> forkSignal_env(Top.env),
        onAbort |-> forkSignal_listener(Top.env), k |-> Top.k])
  /\ ctrls' = forkSignal_ctrls(Top.env)
  /\ stack' = <<raceAll_forF(Len(races) + 1, FALSE)>> \o Rest
  /\ UNCHANGED <<prog, asyncs, fes, gens, handles, scopes, timers, microtasks, now,
                 aborts, log>>

\* for (; index < len; index++) effects[index][runSymbol](envWithSignal, onDone);
\* the continuation keeps the child for the observation only: onDone does not
\* know who calls it
raceAll_for ==
  /\ Running("raceAll_for")
  /\ LET id == Top.id
         index == races[id].index + (IF Top.inc THEN 1 ELSE 0)
     IN /\ races' = [races EXCEPT ![id].index = index]
        /\ IF index < races[id].len
             THEN /\ stack' = <<RunF(races[id].effects[index + 1],
                                     races[id].envWithSignal,
                                     [k |-> IF races[id].of = "raceAll"
                                              THEN "raceAll_onDone"
                                              ELSE "raceAllFirst_onDone",
                                      id |-> id, child |-> index]),
                                raceAll_forF(id, TRUE)>> \o Rest
                  /\ log' = Append(log, Started(races[id].of, id, index))
             ELSE /\ stack' = Rest
                  /\ UNCHANGED log
  /\ UNCHANGED <<prog, ctrls, asyncs, fes, gens, handles, scopes, timers, microtasks,
                 now, aborts>>

\* function onDone(result_) of raceAll, up to and including the call of onAbort()
raceAll_onDone ==
  /\ Calling("raceAll_onDone")
  /\ LET id == Top.k.id
         race == races[id]
         endF == [pc |-> "raceAll_onDone_end", id |-> id]
     IN IF Top.r.tag = "Right" /\ race.result = undefined
          THEN /\ races' = [races EXCEPT ![id].done = @ + 1,
                                         ![id].len = race.index,
                                         ![id].result = Top.r]
               /\ stack' = <<race.onAbort, endF>> \o Rest
          ELSE IF Top.r.tag = "Left"
          THEN /\ races' = [races EXCEPT ![id].done = @ + 1,
                                         ![id].failures = Append(@, Top.r.left)]
               /\ stack' = <<endF>> \o Rest
          ELSE /\ races' = [races EXCEPT ![id].done = @ + 1]
               /\ stack' = <<endF>> \o Rest
  /\ log' = Append(log, Reported("raceAll", Top.k.id, Top.k.child, Top.r))
  /\ UNCHANGED <<prog, ctrls, asyncs, fes, gens, handles, scopes, timers, microtasks,
                 now, aborts>>

\* the end of onDone, were it to deliver the failure collected last
raceAll_onDone_end_last ==
  /\ Running("raceAll_onDone_end")
  /\ LET race == races[Top.id]
         r == IF race.result # undefined THEN race.result
              ELSE IF race.failures # <<>> THEN Left(race.failures[Len(race.failures)])
              ELSE Left(undefined)
     IN IF race.done = race.len
          THEN /\ log' = Append(log, Delivered(race.of, Top.id, r))
               /\ stack' = <<CallF(race.k, r)>> \o Rest
          ELSE /\ stack' = Rest
               /\ UNCHANGED log
  /\ UNCHANGED <<prog, ctrls, asyncs, races, fes, gens, handles, scopes, timers,
                 microtasks, now, aborts>>

\* if (done === len) onResult(result ?? Either.left(failures[0]))
raceAll_onDone_end ==
  /\ Running("raceAll_onDone_end")
  /\ LET race == races[Top.id]
         r == IF race.result # undefined THEN race.result
              ELSE IF race.failures # <<>> THEN Left(race.failures[1])
              ELSE Left(undefined)
     IN IF race.done = race.len
          THEN /\ log' = Append(log, Delivered(race.of, Top.id, r))
               /\ stack' = <<CallF(race.k, r)>> \o Rest
          ELSE /\ stack' = Rest
               /\ UNCHANGED log
  /\ UNCHANGED <<prog, ctrls, asyncs, races, fes, gens, handles, scopes, timers,
                 microtasks, now, aborts>>

\* raceAllFirst: the body up to the loop; the loop and the end of onDone are
\* the same text as in raceAll
run_raceAllFirst ==
  /\ Body("raceAllFirst")
  /\ races' = Append(races,
       [of |-> "raceAllFirst", effects |-> Top.e.all, len |-> Len(Top.e.all),
        index |-> 0, done |-> 0, result |-> undefined, failures |-> <<>>,
        envWithSignal |-> forkSignal_env(Top.env),
        onAbort |-> forkSignal_listener(Top.env), k |-> Top.k])
  /\ ctrls' = forkSignal_ctrls(Top.env)
  /\ stack' = <<raceAll_forF(Len(races) + 1, FALSE)>> \o Rest
  /\ UNCHANGED <<prog, asyncs, fes, gens, handles, scopes, timers, microtasks, now,
                 aborts, log>>

\* function onDone(result_) of raceAllFirst, up to and including onAbort()
raceAllFirst_onDone ==
  /\ Calling("raceAllFirst_onDone")
  /\ LET id == Top.k.id
         race == races[id]
         endF == [pc |-> "raceAll_onDone_end", id |-> id]
     IN IF race.result = undefined
          THEN /\ races' = [races EXCEPT ![id].done = @ + 1,
                                         ![id].len = race.index,
                                         ![id].result = Top.r]
               /\ stack' = <<race.onAbort, endF>> \o Rest
          ELSE /\ races' = [races EXCEPT ![id].done = @ + 1]
               /\ stack' = <<endF>> \o Rest
  /\ log' = Append(log, Reported("raceAllFirst", Top.k.id, Top.k.child, Top.r))
  /\ UNCHANGED <<prog, ctrls, asyncs, fes, gens, handles, scopes, timers, microtasks,
                 now, aborts>>

----------------------------------------------------------------------------
\* interruption

\* an uninterruptible that clears the flag and keeps the signal
run_uninterruptible_signal ==
  /\ Body("uninterruptible")
  /\ Goto(<<RunF(Top.e.self, EnvSet(Top.env, "currentInterruptible", FALSE), Top.k)>>)

\* uninterruptible: self runs with currentInterruptible = false and the signal
\* of a new AbortController (the controller itself is not installed)
run_uninterruptible ==
  /\ Body("uninterruptible")
  /\ ctrls' = Append(ctrls, NewController)
  /\ stack' = <<RunF(Top.e.self,
                     EnvSet(EnvSet(Top.env, "currentInterruptible", FALSE),
                            "currentAbortSignal", Len(ctrls) + 1),
                     Top.k)>> \o Rest
  /\ UNCHANGED <<prog, asyncs, races, fes, gens, handles, scopes, timers, microtasks,
                 now, aborts, log>>

\* uninterruptibleMask: f(interruptible) in an uninterruptible environment if
\* the caller is interruptible, f(identity) in the caller's own otherwise
run_uninterruptibleMask ==
  /\ Body("uninterruptibleMask")
  /\ LET isInterruptible == EnvGet(Top.env, "currentInterruptible") IN
     IF isInterruptible
       THEN /\ ctrls' = Append(ctrls, NewController)
            /\ stack' = <<RunF(Apply(Top.e.f, [fn |-> "interruptible"]),
                               EnvSet(EnvSet(Top.env, "currentInterruptible", FALSE),
                                      "currentAbortSignal", Len(ctrls) + 1),
                               Top.k)>> \o Rest
       ELSE /\ stack' = <<RunF(Apply(Top.e.f, identity), Top.env, Top.k)>> \o Rest
            /\ UNCHANGED ctrls
  /\ UNCHANGED <<prog, asyncs, races, fes, gens, handles, scopes, timers, microtasks,
                 now, aborts, log>>

\* an interruptible that sets the flag and keeps the signal
run_interruptible_signal ==
  /\ Body("interruptible")
  /\ Goto(<<RunF(Top.e.self, EnvSet(Top.env, "currentInterruptible", TRUE), Top.k)>>)

\* interruptible: in an uninterruptible environment, self runs interruptible
\* again under the signal of currentAbortController
run_interruptible ==
  /\ Body("interruptible")
  /\ LET isInterruptible == EnvGet(Top.env, "currentInterruptible")
         controller == EnvGet(Top.env, "currentAbortController")
         newEnv == IF ~isInterruptible
                     THEN EnvSet(EnvSet(Top.env, "currentInterruptible", TRUE),
                                 "currentAbortSignal", controller)
                     ELSE Top.env
     IN Goto(<<RunF(Top.e.self, newEnv, Top.k)>>)

----------------------------------------------------------------------------
\* forEach

run_forEach ==
  /\ Body("forEach")
  /\ LET e == Top.e
         concurrency == IF "inherit" \in DOMAIN e.options.concurrency
                          THEN EnvGet(Top.env, "currentConcurrency")
                          ELSE e.options.concurrency
     IN IF concurrency.unbounded \/ concurrency.n > 1
          THEN Goto(<<RunF(forEachConcurrent(e.iterable, e.f,
                             [concurrency |-> concurrency, discard |-> e.options.discard]),
                           Top.env, Top.k)>>)
          ELSE Goto(<<RunF(forEachSequential(e.iterable, e.f, e.options),
                           Top.env, Top.k)>>)

\* new Array(length)
NewArray(length) == [i \in 1..length |-> undefined]


\* forEachSequential: the locals of one activation, then tick()
run_forEachSequential ==
  /\ Body("forEachSequential")
  /\ fes' = Append(fes,
       [items |-> Top.e.iterable, f |-> Top.e.f, length |-> Len(Top.e.iterable),
        discard |-> Top.e.options.discard, out |-> NewArray(Len(Top.e.iterable)),
        index |-> 0, running |-> FALSE,
        complete |-> [i \in 1..Len(Top.e.iterable) |-> FALSE],
        env |-> Top.env, k |-> Top.k])
  /\ stack' = <<LoopF("tick", Len(fes) + 1)>> \o Rest
  /\ UNCHANGED <<prog, ctrls, asyncs, races, gens, handles, scopes, timers, microtasks,
                 now, aborts, log>>

\* function tick(): running = true, then the while loop
forEachSequential_tick ==
  /\ Running("tick")
  /\ fes' = [fes EXCEPT ![Top.id].running = TRUE]
  /\ stack' = <<LoopF("tick_while", Top.id)>> \o Rest
  /\ UNCHANGED <<prog, ctrls, asyncs, races, gens, handles, scopes, timers, microtasks,
                 now, aborts, log>>

\* one test of `while (index < length)` and, if it holds, the body up to the
\* call of f(items[current])[runSymbol](env, callback)
forEachSequential_while ==
  /\ Running("tick_while")
  /\ LET id == Top.id
         fe == fes[id]
         current == fe.index
         item == fe.items[current + 1]
     IN IF fe.index < fe.length
          THEN /\ fes' = [fes EXCEPT ![id].index = @ + 1]
               /\ log' = Append(log, Started("forEach", id, current))
               /\ stack' =
                    (IF Throws(fe.f, item)
                       THEN <<ThrowF(item.effect.error)>>
                       ELSE <<RunF(Apply(fe.f, item), fe.env,
                                   [k |-> "forEachSequential_cb", id |-> id,
                                    current |-> current])>>)
                    \o <<TryLoopF("tick", id),
                         [pc |-> "tick_after", id |-> id, current |-> current]>>
                    \o Rest
          ELSE /\ stack' = <<LoopF("tick_end", id)>> \o Rest
               /\ UNCHANGED <<fes, gens, log>>
  /\ UNCHANGED <<prog, ctrls, asyncs, races, gens, handles, scopes, timers, microtasks,
                 now, aborts>>

\* if (!complete) break
forEachSequential_after ==
  /\ Running("tick_after")
  /\ IF fes[Top.id].complete[Top.current + 1]
       THEN Goto(<<LoopF("tick_while", Top.id)>>)
       ELSE Goto(<<LoopF("tick_end", Top.id)>>)

\* catch (err) { onResult(Either.left(FailureUnexpected(err))); break }
forEachSequential_catch ==
  /\ Running("catch") /\ Top.of = "tick"
  /\ log' = Append(log, Delivered("forEach", Top.id, Left(FailureUnexpected(Top.error))))
  /\ stack' = <<CallF(fes[Top.id].k, Left(FailureUnexpected(Top.error))),
                LoopF("tick_end", Top.id)>> \o Tail(Rest)
  /\ UNCHANGED <<prog, ctrls, asyncs, races, fes, gens, handles, scopes, timers,
                 microtasks, now, aborts>>

\* running = false, the last statement of tick
forEachSequential_tick_end ==
  /\ Running("tick_end")
  /\ fes' = [fes EXCEPT ![Top.id].running = FALSE]
  /\ stack' = Rest
  /\ UNCHANGED <<prog, ctrls, asyncs, races, gens, handles, scopes, timers, microtasks,
                 now, aborts, log>>

\* the callback given to f(items[current]), up to the first call it makes
forEachSequential_cb ==
  /\ Calling("forEachSequential_cb")
  /\ LET id == Top.k.id
         current == Top.k.current
         fe == fes[id]
         endF == [pc |-> "forEachSequential_cb_end", id |-> id, current |-> current]
     IN IF Top.r.tag = "Left"
          THEN /\ fes' = [fes EXCEPT ![id].complete[current + 1] = TRUE,
                                     ![id].index = fe.length]
               /\ log' = log \o <<Reported("forEach", id, current, Top.r),
                                   Delivered("forEach", id, Top.r)>>
               /\ stack' = <<CallF(fe.k, Top.r), endF>> \o Rest
          ELSE /\ fes' = [fes EXCEPT ![id].complete[current + 1] = TRUE,
                                     ![id].out[current + 1] =
                                        IF fe.discard THEN @ ELSE Top.r.right]
               /\ stack' = <<endF>> \o Rest
               /\ log' = Append(log, Reported("forEach", id, current, Top.r))
  /\ UNCHANGED <<prog, ctrls, asyncs, races, gens, handles, scopes, timers, microtasks,
                 now, aborts>>

\* the out array as delivered: undefined with discard
forEach_out(fe) == IF fe.discard THEN Void ELSE Arr(fe.out)

\* if (current === length - 1) onResult(Either.right(out)) else if (!running) tick()
forEachSequential_cb_end ==
  /\ Running("forEachSequential_cb_end")
  /\ LET id == Top.id
         fe == fes[id]
     IN IF Top.current = fe.length - 1
          THEN /\ log' = Append(log, Delivered("forEach", id, Right(forEach_out(fe))))
               /\ stack' = <<CallF(fe.k, Right(forEach_out(fe)))>> \o Rest
          ELSE /\ stack' = (IF ~fe.running THEN <<LoopF("tick", id)>> ELSE <<>>) \o Rest
               /\ UNCHANGED log
  /\ UNCHANGED <<prog, ctrls, asyncs, races, fes, gens, handles, scopes, timers,
                 microtasks, now, aborts>>


----------------------------------------------------------------------------
\* gen

\* the body of gen up to the call of run(): const iterator = f(), running =
\* false, value = undefined.  advanced counts the calls of iterator.next that
\* the iterator has answered, done tells that it has returned or thrown, and
\* shouldContinue holds the local of every activation of run()
run_gen ==
  /\ Body("gen")
  /\ gens' = Append(gens,
       [f |-> Top.e.f, advanced |-> 0, done |-> FALSE, running |-> FALSE,
        value |-> undefined, shouldContinue |-> <<>>, env |-> Top.env, k |-> Top.k])
  /\ stack' = <<LoopF("gen_run", Len(gens) + 1)>> \o Rest
  /\ UNCHANGED <<prog, ctrls, asyncs, races, fes, handles, scopes, timers,
                 microtasks, now, aborts, log>>

gen_whileF(id, run) == [pc |-> "gen_while", id |-> id, run |-> run]

\* function run(): running = true, try { let shouldContinue = true ...
gen_run ==
  /\ Running("gen_run")
  /\ gens' = [gens EXCEPT ![Top.id].running = TRUE,
                          ![Top.id].shouldContinue = Append(@, TRUE)]
  /\ stack' = <<gen_whileF(Top.id, Len(gens[Top.id].shouldContinue) + 1),
                TryLoopF("gen_run", Top.id), LoopF("gen_run_end", Top.id)>> \o Rest
  /\ UNCHANGED <<prog, ctrls, asyncs, races, fes, handles, scopes, timers,
                 microtasks, now, aborts, log>>

\* iterator.next(value) of the generator function above: the next yielded
\* effect, or the return of the last value sent in, or the exception thrown;
\* an iterator that is done answers { done: true, value: undefined }
iterator_next(g) ==
  IF g.done THEN [done |-> TRUE, value |-> undefined]
  ELSE IF g.advanced < Len(g.f.yields)
    THEN [done |-> FALSE, value |-> g.f.yields[g.advanced + 1]]
  ELSE IF g.f.throws THEN [threw |-> Val(13)]
  ELSE [done |-> TRUE, value |-> IF g.advanced = 0 THEN Val(0) ELSE g.value]

\* one test of `while (shouldContinue)` and, if it holds, the body of the
\* loop up to the call of onResult or of the yielded effect
gen_while ==
  /\ Running("gen_while")
  /\ LET id == Top.id
         g == gens[id]
         result == iterator_next(g)
         next == [ev |-> "next", id |-> id, advanced |-> g.advanced, done |-> g.done,
                  value |-> g.value]
     IN IF ~g.shouldContinue[Top.run]
          THEN /\ stack' = Rest
               /\ UNCHANGED <<gens, log>>
        ELSE IF "threw" \in DOMAIN result
          THEN /\ gens' = [gens EXCEPT ![id].done = TRUE, ![id].advanced = @ + 1]
               /\ log' = Append(log, next)
               /\ stack' = <<ThrowF(result.threw)>> \o Rest
        ELSE IF result.done
          THEN /\ gens' = [gens EXCEPT ![id].done = TRUE, ![id].advanced = @ + 1]
               /\ log' = log \o <<next, Delivered("gen", id, Right(result.value))>>
               /\ stack' = <<CallF(g.k, Right(result.value)), LoopF("gen_return", id)>>
                            \o Rest
        ELSE /\ gens' = [gens EXCEPT ![id].advanced = @ + 1,
                                     ![id].shouldContinue[Top.run] = FALSE]
             /\ log' = Append(log, next)
             /\ stack' = <<RunF(result.value, g.env,
                                [k |-> "gen_cb", id |-> id, run |-> Top.run,
                                 yielded |-> g.advanced + 1]),
                           Top>> \o Rest
  /\ UNCHANGED <<prog, ctrls, asyncs, races, fes, handles, scopes, timers,
                 microtasks, now, aborts>>

\* `return onResult(...)`: run() is left from inside its try, and running
\* stays true
gen_return ==
  /\ Running("gen_return")
  /\ stack' = Tail(Tail(Rest))
  /\ UNCHANGED others

\* catch (err) { onResult(Either.left(FailureUnexpected(err))) }
gen_catch ==
  /\ Running("catch") /\ Top.of = "gen_run"
  /\ log' = Append(log, Delivered("gen", Top.id, Left(FailureUnexpected(Top.error))))
  /\ stack' = <<CallF(gens[Top.id].k, Left(FailureUnexpected(Top.error)))>> \o Rest
  /\ UNCHANGED <<prog, ctrls, asyncs, races, fes, gens, handles, scopes, timers,
                 microtasks, now, aborts>>

\* running = false, the last statement of run()
gen_run_end ==
  /\ Running("gen_run_end")
  /\ gens' = [gens EXCEPT ![Top.id].running = FALSE]
  /\ stack' = Rest
  /\ UNCHANGED <<prog, ctrls, asyncs, races, fes, handles, scopes, timers,
                 microtasks, now, aborts, log>>

\* the callback with `run()` in place of `if (!running) run()`
gen_cb_rerun ==
  /\ Calling("gen_cb")
  /\ LET id == Top.k.id IN
     IF Top.r.tag = "Left"
       THEN /\ log' = log \o <<Reported("gen", id, Top.k.yielded, Top.r),
                                Delivered("gen", id, Top.r)>>
            /\ stack' = <<CallF(gens[id].k, Top.r)>> \o Rest
            /\ UNCHANGED gens
       ELSE /\ log' = Append(log, Reported("gen", id, Top.k.yielded, Top.r))
            /\ gens' = [gens EXCEPT ![id].shouldContinue[Top.k.run] = TRUE,
                                    ![id].value = Top.r.right]
            /\ stack' = <<LoopF("gen_run", id)>> \o Rest
  /\ UNCHANGED <<prog, ctrls, asyncs, races, fes, handles, scopes, timers,
                 microtasks, now, aborts>>

\* the callback given to the yielded effect
gen_cb ==
  /\ Calling("gen_cb")
  /\ LET id == Top.k.id IN
     IF Top.r.tag = "Left"
       THEN /\ log' = log \o <<Reported("gen", id, Top.k.yielded, Top.r),
                                Delivered("gen", id, Top.r)>>
            /\ stack' = <<CallF(gens[id].k, Top.r)>> \o Rest
            /\ UNCHANGED gens
       ELSE /\ log' = Append(log, Reported("gen", id, Top.k.yielded, Top.r))
            /\ gens' = [gens EXCEPT ![id].shouldContinue[Top.k.run] = TRUE,
                                    ![id].value = Top.r.right]
            /\ stack' = (IF ~gens[id].running THEN <<LoopF("gen_run", id)>> ELSE <<>>)
                         \o Rest
  /\ UNCHANGED <<prog, ctrls, asyncs, races, fes, handles, scopes, timers,
                 microtasks, now, aborts>>

\* forEachConcurrent: forkSignal, the locals of one activation, then pump()
run_forEachConcurrent ==
  /\ Body("forEachConcurrent")
  /\ fes' = Append(fes,
       [items |-> Top.e.iterable, f |-> Top.e.f, length |-> Len(Top.e.iterable),
        discard |-> Top.e.options.discard, out |-> NewArray(Len(Top.e.iterable)),
        concurrency |-> Top.e.options.concurrency, failure |-> undefined,
        index |-> 0, inProgress |-> 0, doneCount |-> 0, pumping |-> FALSE,
        envWithSignal |-> forkSignal_env(Top.env),
        onAbort |-> forkSignal_listener(Top.env), k |-> Top.k])
  /\ ctrls' = forkSignal_ctrls(Top.env)
  /\ stack' = <<LoopF("pump", Len(fes) + 1)>> \o Rest
  /\ UNCHANGED <<prog, asyncs, races, gens, handles, scopes, timers, microtasks, now,
                 aborts, log>>

\* function pump(): pumping = true, then the while loop
forEachConcurrent_pump ==
  /\ Running("pump")
  /\ fes' = [fes EXCEPT ![Top.id].pumping = TRUE]
  /\ stack' = <<LoopF("pump_while", Top.id)>> \o Rest
  /\ UNCHANGED <<prog, ctrls, asyncs, races, gens, handles, scopes, timers, microtasks,
                 now, aborts, log>>

\* the loop of pump, were it to test `index < length` only
forEachConcurrent_while_unbounded ==
  /\ Running("pump_while")
  /\ LET id == Top.id
         fe == fes[id]
         currentIndex == fe.index
         item == fe.items[currentIndex + 1]
     IN IF fe.index < fe.length
          THEN /\ fes' = [fes EXCEPT ![id].index = @ + 1, ![id].inProgress = @ + 1]
               /\ log' = Append(log, Started("forEach", id, currentIndex))
               /\ stack' =
                    (IF Throws(fe.f, item)
                       THEN <<ThrowF(item.effect.error)>>
                       ELSE <<RunF(Apply(fe.f, item), fe.envWithSignal,
                                   [k |-> "forEachConcurrent_cb", id |-> id,
                                    currentIndex |-> currentIndex])>>)
                    \o <<TryLoopF("pump", id), LoopF("pump_while", id)>>
                    \o Rest
          ELSE /\ fes' = [fes EXCEPT ![id].pumping = FALSE]
               /\ stack' = Rest
               /\ UNCHANGED log
  /\ UNCHANGED <<prog, ctrls, asyncs, races, gens, handles, scopes, timers, microtasks,
                 now, aborts>>

\* one test of `while (inProgress < concurrency && index < length)` and, if it
\* holds, the body up to the call of f(item)[runSymbol](envWithSignal, callback);
\* when the loop ends, pumping = false
forEachConcurrent_while ==
  /\ Running("pump_while")
  /\ LET id == Top.id
         fe == fes[id]
         currentIndex == fe.index
         item == fe.items[currentIndex + 1]
     IN IF (fe.concurrency.unbounded \/ fe.inProgress < fe.concurrency.n)
           /\ fe.index < fe.length
          THEN /\ fes' = [fes EXCEPT ![id].index = @ + 1, ![id].inProgress = @ + 1]
               /\ log' = Append(log, Started("forEach", id, currentIndex))
               /\ stack' =
                    (IF Throws(fe.f, item)
                       THEN <<ThrowF(item.effect.error)>>
                       ELSE <<RunF(Apply(fe.f, item), fe.envWithSignal,
                                   [k |-> "forEachConcurrent_cb", id |-> id,
                                    currentIndex |-> currentIndex])>>)
                    \o <<TryLoopF("pump", id), LoopF("pump_while", id)>>
                    \o Rest
          ELSE /\ fes' = [fes EXCEPT ![id].pumping = FALSE]
               /\ stack' = Rest
               /\ UNCHANGED log
  /\ UNCHANGED <<prog, ctrls, asyncs, races, gens, handles, scopes, timers, microtasks,
                 now, aborts>>

\* catch (err) { failure = Either.left(FailureUnexpected(err)); onDone() }
\* with onDone() = { length = index; onAbort() }
forEachConcurrent_catch ==
  /\ Running("catch") /\ Top.of = "pump"
  /\ fes' = [fes EXCEPT ![Top.id].failure = Left(FailureUnexpected(Top.error)),
                        ![Top.id].length = fes[Top.id].index]
  /\ stack' = <<fes[Top.id].onAbort>> \o Rest
  /\ UNCHANGED <<prog, ctrls, asyncs, races, gens, handles, scopes, timers, microtasks,
                 now, aborts, log>>

\* the callback, were it to store the value at the position of its completion
forEachConcurrent_cb_completion ==
  /\ Calling("forEachConcurrent_cb")
  /\ LET id == Top.k.id
         fe == fes[id]
         endF == [pc |-> "forEachConcurrent_cb_end", id |-> id]
     IN IF Top.r.tag = "Left" /\ fe.failure = undefined
          THEN /\ fes' = [fes EXCEPT ![id].doneCount = @ + 1,
                                     ![id].inProgress = @ - 1,
                                     ![id].failure = Top.r,
                                     ![id].length = fe.index]
               /\ stack' = <<fe.onAbort, endF>> \o Rest
          ELSE /\ fes' = [fes EXCEPT ![id].doneCount = @ + 1,
                                     ![id].inProgress = @ - 1,
                                     ![id].out[fe.doneCount + 1] =
                                        IF Top.r.tag = "Left" \/ fe.discard
                                          THEN @ ELSE Top.r.right]
               /\ stack' = <<endF>> \o Rest
  /\ log' = Append(log, Reported("forEach", Top.k.id, Top.k.currentIndex, Top.r))
  /\ UNCHANGED <<prog, ctrls, asyncs, races, gens, handles, scopes, timers, microtasks,
                 now, aborts>>

\* the callback, were it to record every failure, not the first only
forEachConcurrent_cb_last ==
  /\ Calling("forEachConcurrent_cb")
  /\ LET id == Top.k.id
         fe == fes[id]
         endF == [pc |-> "forEachConcurrent_cb_end", id |-> id]
     IN IF Top.r.tag = "Left"
          THEN /\ fes' = [fes EXCEPT ![id].doneCount = @ + 1,
                                     ![id].inProgress = @ - 1,
                                     ![id].failure = Top.r,
                                     ![id].length = fe.index]
               /\ stack' = <<fe.onAbort, endF>> \o Rest
          ELSE /\ fes' = [fes EXCEPT ![id].doneCount = @ + 1,
                                     ![id].inProgress = @ - 1,
                                     ![id].out[Top.k.currentIndex + 1] =
                                        IF Top.r.tag = "Left" \/ fe.discard
                                          THEN @ ELSE Top.r.right]
               /\ stack' = <<endF>> \o Rest
  /\ log' = Append(log, Reported("forEach", Top.k.id, Top.k.currentIndex, Top.r))
  /\ UNCHANGED <<prog, ctrls, asyncs, races, gens, handles, scopes, timers, microtasks,
                 now, aborts>>

\* the callback given to f(item), up to the end of its first if statement
forEachConcurrent_cb ==
  /\ Calling("forEachConcurrent_cb")
  /\ LET id == Top.k.id
         fe == fes[id]
         endF == [pc |-> "forEachConcurrent_cb_end", id |-> id]
     IN IF Top.r.tag = "Left" /\ fe.failure = undefined
          THEN /\ fes' = [fes EXCEPT ![id].doneCount = @ + 1,
                                     ![id].inProgress = @ - 1,
                                     ![id].failure = Top.r,
                                     ![id].length = fe.index]
               /\ stack' = <<fe.onAbort, endF>> \o Rest
          ELSE /\ fes' = [fes EXCEPT ![id].doneCount = @ + 1,
                                     ![id].inProgress = @ - 1,
                                     ![id].out[Top.k.currentIndex + 1] =
                                        IF Top.r.tag = "Left" \/ fe.discard
                                          THEN @ ELSE Top.r.right]
               /\ stack' = <<endF>> \o Rest
  /\ log' = Append(log, Reported("forEach", Top.k.id, Top.k.currentIndex, Top.r))
  /\ UNCHANGED <<prog, ctrls, asyncs, races, gens, handles, scopes, timers, microtasks,
                 now, aborts>>

\* if (doneCount === length) { onAbort(); onResult(failure ?? Either.right(out)) }
\* else if (!pumping && inProgress < concurrency) pump()
forEachConcurrent_cb_end ==
  /\ Running("forEachConcurrent_cb_end")
  /\ LET id == Top.id
         fe == fes[id]
     IN IF fe.doneCount = fe.length
          THEN stack' = <<fe.onAbort,
                          [pc |-> "forEachConcurrent_onResult", id |-> id]>> \o Rest
          ELSE IF ~fe.pumping
                  /\ (fe.concurrency.unbounded \/ fe.inProgress < fe.concurrency.n)
          THEN stack' = <<LoopF("pump", id)>> \o Rest
          ELSE stack' = Rest
  /\ UNCHANGED others

\* onResult(failure ?? Either.right(out)), after onAbort() has returned
forEachConcurrent_onResult ==
  /\ Running("forEachConcurrent_onResult")
  /\ LET fe == fes[Top.id]
         r == IF fe.failure # undefined THEN fe.failure ELSE Right(forEach_out(fe))
     IN /\ log' = Append(log, Delivered("forEach", Top.id, r))
        /\ stack' = <<CallF(fe.k, r)>> \o Rest
  /\ UNCHANGED <<prog, ctrls, asyncs, races, fes, gens, handles, scopes, timers,
                 microtasks, now, aborts>>

----------------------------------------------------------------------------
\* Scopes

\* new ScopeImpl(): Open, no finalizer
makeScope_evaluate ==
  /\ Body("sync") /\ Top.e.evaluate.th = "makeScope"
  /\ scopes' = Append(scopes, [tag |-> "Open", finalizers |-> <<>>,
                               result |-> undefined])
  /\ stack' = <<CallF(Top.k, Right([tag |-> "scope", id |-> Len(scopes) + 1]))>> \o Rest
  /\ UNCHANGED <<prog, ctrls, asyncs, races, fes, gens, handles, timers, microtasks,
                 now, aborts, log>>

\* finalizers.add(finalizer): a Set keeps the order of insertion and ignores
\* a member it already has

\* an addFinalizer that keeps its finalizers in a list, a member twice if it
\* is added twice
ScopeImpl_addFinalizer_evaluate_list ==
  /\ Body("suspend") /\ Top.e.evaluate.th = "addFinalizer"
  /\ LET th == Top.e.evaluate
         self == scopes[th.scope]
     IN IF self.tag = "Open"
          THEN /\ scopes' = [scopes EXCEPT ![th.scope].finalizers =
                                              Append(@, th.finalizer)]
               /\ stack' = <<RunF(void_, Top.env, Top.k)>> \o Rest
          ELSE /\ stack' = <<RunF(Apply(th.finalizer, self.result), Top.env, Top.k)>>
                           \o Rest
               /\ UNCHANGED scopes
  /\ UNCHANGED <<prog, ctrls, asyncs, races, fes, gens, handles, timers, microtasks,
                 now, aborts, log>>

\* the suspend of addFinalizer
ScopeImpl_addFinalizer_evaluate ==
  /\ Body("suspend") /\ Top.e.evaluate.th = "addFinalizer"
  /\ LET th == Top.e.evaluate
         self == scopes[th.scope]
     IN IF self.tag = "Open"
          THEN /\ scopes' = [scopes EXCEPT ![th.scope].finalizers =
                                              IF Has(@, th.finalizer) THEN @
                                              ELSE Append(@, th.finalizer)]
               /\ stack' = <<RunF(void_, Top.env, Top.k)>> \o Rest
          ELSE /\ stack' = <<RunF(Apply(th.finalizer, self.result), Top.env, Top.k)>>
                           \o Rest
               /\ UNCHANGED scopes
  /\ UNCHANGED <<prog, ctrls, asyncs, races, fes, gens, handles, timers, microtasks,
                 now, aborts, log>>

\* a close that keeps the order of registration
Forward(seq) == seq
Reverse(seq) == [i \in 1..Len(seq) |-> seq[Len(seq) + 1 - i]]

\* the suspend of close
ScopeImpl_close_evaluate ==
  /\ Body("suspend") /\ Top.e.evaluate.th = "close"
  /\ LET th == Top.e.evaluate
         self == scopes[th.scope]
     IN IF self.tag = "Open"
          THEN /\ scopes' = [scopes EXCEPT ![th.scope] =
                               [tag |-> "Closed", finalizers |-> <<>>,
                                result |-> th.result]]
               /\ stack' =
                    <<RunF(flatMap(forEach(Reverse(self.finalizers),
                                           [fn |-> "close_f", result |-> th.result],
                                           [concurrency |-> Concurrency(1),
                                            discard |-> FALSE]),
                                   [fn |-> "close_all"]),
                           Top.env, Top.k)>> \o Rest
          ELSE /\ stack' = <<RunF(void_, Top.env, Top.k)>> \o Rest
               /\ UNCHANGED scopes
  /\ UNCHANGED <<prog, ctrls, asyncs, races, fes, gens, handles, timers, microtasks,
                 now, aborts, log>>

\* a fork that gives the new scope no finalizer
ScopeImpl_fork_evaluate_kept ==
  /\ Body("sync") /\ Top.e.evaluate.th = "fork"
  /\ LET self == Top.e.evaluate.scope
         newScope == Len(scopes) + 1
         fin == ScopeImpl_fork_fin(newScope)
     IN IF scopes[self].tag = "Closed"
          THEN scopes' = Append(scopes, scopes[self])
          ELSE scopes' = Append([scopes EXCEPT ![self].finalizers =
                                   IF Has(@, fin) THEN @ ELSE Append(@, fin)],
                                [tag |-> "Open", finalizers |-> <<>>,
                                 result |-> undefined])
  /\ stack' = <<CallF(Top.k, Right([tag |-> "scope", id |-> Len(scopes) + 1]))>>
               \o Rest
  /\ UNCHANGED <<prog, ctrls, asyncs, races, fes, gens, handles, timers, microtasks,
                 now, aborts, log>>

\* the sync of fork: a new scope, which has the state of this one if this one
\* is Closed; otherwise this one gets the finalizer fin, which closes the new
\* scope, and the new scope a finalizer that takes fin off this one
ScopeImpl_fork_evaluate ==
  /\ Body("sync") /\ Top.e.evaluate.th = "fork"
  /\ LET self == Top.e.evaluate.scope
         newScope == Len(scopes) + 1
         fin == ScopeImpl_fork_fin(newScope)
     IN IF scopes[self].tag = "Closed"
          THEN scopes' = Append(scopes, scopes[self])
          ELSE scopes' = Append([scopes EXCEPT ![self].finalizers =
                                   IF Has(@, fin) THEN @ ELSE Append(@, fin)],
                                [tag |-> "Open",
                                 finalizers |-> <<ScopeImpl_fork_remove(self, fin)>>,
                                 result |-> undefined])
  /\ stack' = <<CallF(Top.k, Right([tag |-> "scope", id |-> Len(scopes) + 1]))>>
               \o Rest
  /\ UNCHANGED <<prog, ctrls, asyncs, races, fes, gens, handles, timers, microtasks,
                 now, aborts, log>>

\* sync(() => this.unsafeRemoveFinalizer(fin)): nothing if the scope is Closed
ScopeImpl_unsafeRemoveFinalizer_evaluate ==
  /\ Body("sync") /\ Top.e.evaluate.th = "unsafeRemoveFinalizer"
  /\ LET th == Top.e.evaluate IN
     scopes' = IF scopes[th.scope].tag = "Open"
                 THEN [scopes EXCEPT ![th.scope].finalizers = Without(@, th.finalizer)]
                 ELSE scopes
  /\ stack' = <<CallF(Top.k, Right(Void))>> \o Rest
  /\ UNCHANGED <<prog, ctrls, asyncs, races, fes, gens, handles, timers, microtasks,
                 now, aborts, log>>

\* service(MicroScope): Context.get throws when the context has no scope
run_service ==
  /\ Body("service")
  /\ LET context == EnvGet(Top.env, "currentContext") IN
     IF context.MicroScope = 0
       THEN Goto(<<ThrowF([tag |-> "ServiceNotFound"])>>)
       ELSE Goto(<<CallF(Top.k, Right(Context_get(context)))>>)

run_provideService ==
  /\ Body("provideService")
  /\ LET context == EnvGet(Top.env, "currentContext")
         nextEnv == EnvSet(Top.env, "currentContext",
                           Context_add(context, Top.e.service))
     IN Goto(<<RunF(Top.e.self, nextEnv, Top.k)>>)

\* the suspend of scoped: a new scope, provided to self and closed with its result
scoped_evaluate ==
  /\ Body("suspend") /\ Top.e.evaluate.th = "scoped"
  /\ LET id == Len(scopes) + 1 IN
     /\ scopes' = Append(scopes, [tag |-> "Open", finalizers |-> <<>>,
                                  result |-> undefined])
     /\ stack' = <<RunF(onResult(provideService(Top.e.evaluate.self,
                                                [tag |-> "scope", id |-> id]),
                                 [fn |-> "scoped_close", scope |-> id]),
                        Top.env, Top.k)>> \o Rest
  /\ UNCHANGED <<prog, ctrls, asyncs, races, fes, gens, handles, timers, microtasks,
                 now, aborts, log>>

----------------------------------------------------------------------------
\* fork

\* a fork that does not listen to the signal of the parent
run_fork_unlinked ==
  /\ Body("fork")
  /\ LET signal == EnvGet(Top.env, "currentAbortSignal")
         h == Len(handles) + 1
         c == Len(ctrls) + 1
         nextEnv == EnvSet(EnvSet(Top.env, "currentAbortController", c),
                           "currentAbortSignal", c)
     IN /\ handles' = Append(handles, HandleImpl(signal, c, FALSE))
        /\ ctrls' = Append(ctrls, NewController)
        /\ microtasks' = Append(microtasks,
                                <<RunF(Top.e.self, nextEnv, emitK(h)),
                                  CallF(Top.k, Right([tag |-> "handle", h |-> h]))>>)
  /\ stack' = Rest
  /\ UNCHANGED <<prog, asyncs, races, fes, gens, scopes, timers, now, aborts, log>>

\* fork: a handle under a new controller that the current signal aborts; self
\* starts, and the handle is delivered, in a microtask
run_fork ==
  /\ Body("fork")
  /\ LET signal == EnvGet(Top.env, "currentAbortSignal")
         h == Len(handles) + 1
         c == Len(ctrls) + 1
         nextEnv == EnvSet(EnvSet(Top.env, "currentAbortController", c),
                           "currentAbortSignal", c)
     IN /\ handles' = Append(handles, HandleImpl(signal, c, FALSE))
        /\ ctrls' = addEventListener(Append(ctrls, NewController), signal,
                                     unsafeAbortL(h))
        /\ microtasks' = Append(microtasks,
                                <<RunF(Top.e.self, nextEnv, emitK(h)),
                                  CallF(Top.k, Right([tag |-> "handle", h |-> h]))>>)
  /\ stack' = Rest
  /\ UNCHANGED <<prog, asyncs, races, fes, gens, scopes, timers, now, aborts, log>>

\* a forkDaemon whose handle listens to the current signal, as that of fork
run_forkDaemon_linked ==
  /\ Body("forkDaemon")
  /\ LET signal == EnvGet(Top.env, "currentAbortSignal")
         h == Len(handles) + 1
         c == Len(ctrls) + 1
         nextEnv == EnvSet(EnvSet(Top.env, "currentAbortController", c),
                           "currentAbortSignal", c)
     IN /\ handles' = Append(handles, HandleImpl(signal, c, FALSE))
        /\ ctrls' = addEventListener(Append(ctrls, NewController), signal,
                                     unsafeAbortL(h))
        /\ microtasks' = Append(microtasks,
                                <<RunF(Top.e.self, nextEnv, emitK(h)),
                                  CallF(Top.k, Right([tag |-> "handle", h |-> h]))>>)
  /\ stack' = Rest
  /\ UNCHANGED <<prog, asyncs, races, fes, gens, scopes, timers, now, aborts, log>>

\* forkDaemon: a handle made with a new controller of its own, which is its
\* parentSignal too (isRoot, no listener); self starts, and the handle is
\* delivered, in a microtask
run_forkDaemon ==
  /\ Body("forkDaemon")
  /\ LET h == Len(handles) + 1
         controller == Len(ctrls) + 1
         nextEnv == EnvSet(EnvSet(Top.env, "currentAbortController", controller),
                           "currentAbortSignal", controller)
     IN /\ handles' = Append(handles, HandleImpl(controller, controller, TRUE))
        /\ ctrls' = Append(ctrls, NewController)
        /\ microtasks' = Append(microtasks,
                                <<RunF(Top.e.self, nextEnv, emitK(h)),
                                  CallF(Top.k, Right([tag |-> "handle", h |-> h]))>>)
  /\ stack' = Rest
  /\ UNCHANGED <<prog, asyncs, races, fes, gens, scopes, timers, now, aborts, log>>

\* sync(() => handle.unsafeAbort()): the program aborts a handle it was given
handle_unsafeAbort_evaluate ==
  /\ Body("sync") /\ Top.e.evaluate.th = "unsafeAbort"
  /\ log' = Append(log, [ev |-> "unsafeAbort", h |-> Top.e.evaluate.h])
  /\ stack' = <<unsafeAbortL(Top.e.evaluate.h), CallF(Top.k, Right(Void))>> \o Rest
  /\ UNCHANGED <<prog, ctrls, asyncs, races, fes, gens, handles, scopes, timers,
                 microtasks, now, aborts>>

----------------------------------------------------------------------------
\* Programs and initial states

\* runFork(effect): the root controller and handle exist, effect is about to run
InitWith(effect) ==
  /\ prog = effect
  /\ ctrls = <<NewController>>
  /\ handles = <<HandleImpl(1, 1, TRUE)>>
  /\ stack = <<RunF(effect, EnvMake(1), emitK(1))>>
  /\ asyncs = <<>> /\ races = <<>> /\ fes = <<>> /\ gens = <<>>
  /\ scopes = <<>>
  /\ timers = <<>> /\ microtasks = <<>>
  /\ now = 0 /\ aborts = 0 /\ log = <<>>

Core ==
  \/ make \/ unsafeMakeNoAbort \/ try_end
  \/ run_succeed \/ run_fail \/ run_failWith \/ run_fromResult \/ run_sync
  \/ run_flatMap \/ flatMap_onResult \/ run_andThen \/ andThen_onResult
  \/ run_asResult \/ asResult_onResult
  \/ run_async \/ async_onAbort \/ async_resume
  \/ AbortController_abort \/ dispatchEvent \/ setTimeout_fire
  \/ HandleImpl_emit \/ HandleImpl_emit_clear
  \/ HandleImpl_unsafeAbort \/ owner_unsafeAbort
  \/ run_uninterruptible

MaskActions == run_uninterruptibleMask \/ run_interruptible

\* nothing left to run: no frame, no timer, no microtask
Quiescent == stack = <<>> /\ timers = <<>> /\ microtasks = <<>>

\* positions of the log, and the events of one kind among them
Events == DOMAIN log
IsEval(i, name) == log[i].ev = "eval" /\ log[i].name = name
IsStart(i, of) == log[i].ev = "start" /\ log[i].of = of
IsDone(i, of) == log[i].ev = "done" /\ log[i].of = of
IsOnResult(i, of) == log[i].ev = "onResult" /\ log[i].of = of

----------------------------------------------------------------------------
\* raceAll over children that succeed or fail, at once or after a delay

MaxChildren == 3
MaxDelay == 2

\* child number i of a race: onInterrupt(<succeed or fail, delayed>, note)
RaceChild(c, i) ==
  onInterrupt(
    LET self == IF c.ok THEN succeed(Val(i)) ELSE fail(Val(i)) IN
    IF c.ms = 0 THEN self ELSE delay(self, c.ms),
    constant(sync(Note("interrupted", Val(i), Void))))

RacePrograms ==
  { raceAll([i \in 1..Len(cs) |-> RaceChild(cs[i], i - 1)]) :
      cs \in UNION { [1..n -> [ok : BOOLEAN, ms : 0..MaxDelay]] : n \in 1..MaxChildren } }

RaceActions ==
  \/ forkSignal_onAbort \/ signal_removeEventListener
  \/ run_raceAll \/ raceAll_for \/ raceAll_onDone
  \/ raceAll_onDone_end

InitRace == \E effect \in RacePrograms : InitWith(effect)
NextRace == Core \/ MaskActions \/ RaceActions
SpecRace == InitRace /\ [][NextRace]_vars

\* what the log says about race 1, the only race of these programs
RaceReports(child) == { i \in Events : IsDone(i, "raceAll") /\ log[i].child = child }
RaceDeliveries == { i \in Events : IsOnResult(i, "raceAll") }
RaceChildren == { log[i].child : i \in { j \in Events : IsStart(j, "raceAll") } }
\* the report of the first child to succeed, 0 if none has
RaceWinner ==
  LET oks == { i \in Events : IsDone(i, "raceAll") /\ log[i].r.tag = "Right" }
  IN IF oks = {} THEN 0 ELSE CHOOSE i \in oks : \A j \in oks : i <= j
\* the children started and not yet reported when the winner reported
RaceLosers ==
  { c \in RaceChildren :
      /\ \E i \in Events : IsStart(i, "raceAll") /\ log[i].child = c /\ i < RaceWinner
      /\ \A i \in RaceReports(c) : i > RaceWinner }
\* the children whose onInterrupt handler ran before position p of the log
RaceInterrupted(p) ==
  { c \in RaceChildren :
      \E i \in Events : i < p /\ IsEval(i, "interrupted") /\ log[i].arg = Val(c) }

\* C1: raceAll calls its own onResult at most once in a run in which each of
\* its children reports at most once, nested reports of aborted losers included
C1_raceAll_onResult_at_most_once ==
  (\A c \in RaceChildren : Cardinality(RaceReports(c)) <= 1)
    => Cardinality(RaceDeliveries) <= 1

\* C9: when raceAll delivers a winner (the owner not having aborted), every
\* child in flight when the winner succeeded has run its onInterrupt handler
\* and reported, and the handlers that have run are those of these children
C9_raceAll_cleanup_before_delivery ==
  \A p \in RaceDeliveries :
    (aborts = 0 /\ RaceWinner # 0) =>
      /\ \A c \in RaceLosers : \E i \in RaceReports(c) : i < p
      /\ RaceInterrupted(p) = RaceLosers

\* C10: once every child of a non-empty raceAll has reported or been left
\* unstarted and nothing remains to run, a race in which a child succeeded has
\* delivered the Ok of the first child to succeed
C10_raceAll_delivers_first_ok ==
  (Quiescent /\ aborts = 0 /\ RaceWinner # 0) =>
    \E p \in RaceDeliveries : log[p].r = log[RaceWinner].r

\* the report of the first child to complete, 0 if none has
RaceFirstReport ==
  LET all == { i \in Events : IsDone(i, "raceAll") }
  IN IF all = {} THEN 0 ELSE CHOOSE i \in all : \A j \in all : i <= j

\* C12: when raceAll delivers Err, no child has succeeded, every child has
\* reported, and the Err is the first one reported; a delivery made after a
\* child succeeded carries that success, whatever failures were reported
\* since; once every child has failed and nothing remains to run, raceAll has
\* delivered
C12_raceAll_all_fail ==
  /\ \A p \in RaceDeliveries :
       /\ log[p].r.tag = "Left" =>
            /\ RaceWinner = 0
            /\ \A c \in 0..(Len(prog.all) - 1) : \E i \in RaceReports(c) : i < p
            /\ log[p].r = log[RaceFirstReport].r
       /\ (RaceWinner # 0 /\ RaceWinner < p) => log[p].r = log[RaceWinner].r
  /\ (Quiescent /\ RaceWinner = 0) =>
       \E p \in RaceDeliveries : log[p].r.tag = "Left"

\* two children failed without the owner aborting, the second of the list
\* first, and raceAll delivered its failure
C12_witness ==
  /\ Quiescent /\ aborts = 0 /\ Len(prog.all) = 2
  /\ RaceFirstReport # 0 /\ log[RaceFirstReport].child = 1
  /\ \E p \in RaceDeliveries : log[p].r = Left(FailureExpected(Val(1)))

----------------------------------------------------------------------------
\* raceAllFirst over the same children

RaceFirstPrograms ==
  { raceAllFirst([i \in 1..Len(cs) |-> RaceChild(cs[i], i - 1)]) :
      cs \in UNION { [1..n -> [ok : BOOLEAN, ms : 0..MaxDelay]] : n \in 1..MaxChildren } }

InitRaceFirst == \E effect \in RaceFirstPrograms : InitWith(effect)
NextRaceFirst ==
  \/ Core \/ MaskActions
  \/ forkSignal_onAbort \/ signal_removeEventListener
  \/ run_raceAllFirst \/ raceAll_for \/ raceAllFirst_onDone
  \/ raceAll_onDone_end
SpecRaceFirst == InitRaceFirst /\ [][NextRaceFirst]_vars

\* what the log says about the one raceAllFirst of these programs
FirstReports == { i \in Events : IsDone(i, "raceAllFirst") }
FirstDeliveries == { i \in Events : IsOnResult(i, "raceAllFirst") }
FirstStarts == { i \in Events : IsStart(i, "raceAllFirst") }
\* the report of the first child to complete, 0 if none has
FirstWinner ==
  IF FirstReports = {} THEN 0
  ELSE CHOOSE i \in FirstReports : \A j \in FirstReports : i <= j
\* the children started before the winner completed, the winner excluded
FirstLosers ==
  { log[i].child : i \in { j \in FirstStarts :
      j < FirstWinner /\ log[j].child # log[FirstWinner].child } }

\* C11: raceAllFirst delivers the result of the first child to complete and
\* nothing else; when it delivers, every child started so far has reported,
\* and (the owner not having aborted) the children in flight when the winner
\* completed have been interrupted; once a child has completed and nothing
\* remains to run, the race has delivered
C11_raceAllFirst_first_to_complete ==
  /\ \A p \in FirstDeliveries :
       /\ FirstWinner # 0 /\ log[p].r = log[FirstWinner].r
       /\ \A i \in FirstStarts :
            i < p => \E j \in FirstReports : j < p /\ log[j].child = log[i].child
       /\ aborts = 0 => RaceInterrupted(p) = FirstLosers
  /\ (Quiescent /\ FirstWinner # 0) => FirstDeliveries # {}

----------------------------------------------------------------------------
\* forEach over items whose effect succeeds or fails, at once or after a
\* delay, or for which f throws

MaxItems == 3

ItemKinds == [ok : BOOLEAN, ms : 0..MaxDelay, throws : {FALSE}]
               \cup {[ok |-> FALSE, ms |-> 0, throws |-> TRUE]}

\* item number i: f(item) is item.effect, or throws
ForEachItem(c, i) ==
  Item(i, IF c.throws THEN [error |-> Val(i)]
          ELSE onInterrupt(
                 LET self == IF c.ok THEN succeed(Val(i)) ELSE fail(Val(i)) IN
                 IF c.ms = 0 THEN self ELSE delay(self, c.ms),
                 constant(sync(Note("interrupted", Val(i), Void)))))

ForEachPrograms ==
  { forEach([i \in 1..Len(cs) |-> ForEachItem(cs[i], i - 1)], perform, options) :
      cs \in UNION { [1..n -> ItemKinds] : n \in 0..MaxItems },
      options \in [concurrency : {Concurrency(1), Concurrency(2), Unbounded},
                   discard : BOOLEAN] }

ForEachActions ==
  \/ forkSignal_onAbort \/ signal_removeEventListener \/ catch
  \/ run_forEach \/ run_forEachSequential \/ forEachSequential_tick
  \/ forEachSequential_while \/ forEachSequential_after
  \/ forEachSequential_catch \/ forEachSequential_tick_end
  \/ forEachSequential_cb \/ forEachSequential_cb_end
  \/ unsafeMake \/ run_forEachConcurrent \/ forEachConcurrent_pump
  \/ forEachConcurrent_while \/ forEachConcurrent_catch
  \/ forEachConcurrent_cb \/ forEachConcurrent_cb_end
  \/ forEachConcurrent_onResult

InitForEach == \E effect \in ForEachPrograms : InitWith(effect)
NextForEach == Core \/ MaskActions \/ ForEachActions
SpecForEach == InitForEach /\ [][NextForEach]_vars

\* what the log says about forEach 1, the only forEach of these programs
ForEachDeliveries == { i \in Events : IsOnResult(i, "forEach") }
ForEachFailures == { i \in Events : IsDone(i, "forEach") /\ log[i].r.tag = "Left" }

\* C2: forEach with concurrency above 1 or unbounded calls its own onResult
\* at most once, nested reports of aborted items included
C2_forEachConcurrent_onResult_at_most_once ==
  (prog.options.concurrency.unbounded \/ prog.options.concurrency.n > 1)
    => Cardinality(ForEachDeliveries) <= 1

\* C3: forEach with concurrency 1, once f(item) has delivered Err: that Err is
\* what forEach delivered, it has delivered nothing else, and no item was
\* started afterwards
C3_forEachSequential_stops_on_Err ==
  prog.options.concurrency = Concurrency(1) =>
    \A i \in ForEachFailures :
      /\ \A p \in ForEachDeliveries : log[p].r = log[i].r
      /\ Cardinality(ForEachDeliveries) = 1
      /\ \A j \in Events : j > i => ~IsStart(j, "forEach")

\* every f(item) of the program succeeds, at once or after a delay
ForEachAllOk ==
  \A i \in 1..Len(prog.iterable) :
    \E ms \in 0..MaxDelay :
      prog.iterable[i] = ForEachItem([ok |-> TRUE, ms |-> ms, throws |-> FALSE], i - 1)
\* the values of the items, in input order
ForEachExpected == [i \in 1..Len(prog.iterable) |-> Val(i - 1)]

\* C13: an Ok that forEach delivers without discard, no item having
\* delivered Err before it, carries the array of the values of f(xs[i]) in
\* input order, for every completion order and every concurrency
C13_forEach_input_order ==
  \A p \in ForEachDeliveries :
    (/\ log[p].r.tag = "Right" /\ ~prog.options.discard
     /\ \A i \in ForEachFailures : i > p)
      => log[p].r.right = Arr(ForEachExpected)

\* three items ran concurrently without the owner aborting, the last of the
\* list completed first, and forEach delivered the array in input order
C13_witness ==
  /\ Quiescent /\ aborts = 0 /\ Len(prog.iterable) = 3
  /\ ~prog.options.discard /\ prog.options.concurrency # Concurrency(1)
  /\ \E i \in Events :
       /\ IsDone(i, "forEach") /\ log[i].child = 2
       /\ \A j \in Events : IsDone(j, "forEach") => i <= j
  /\ \E p \in ForEachDeliveries : log[p].r = Right(Arr(ForEachExpected))

\* C14: forEach over items that all succeed, the owner not aborting: once
\* nothing remains to run, forEach has delivered Ok of an array with one
\* entry per item (Ok(void) with discard), the empty iterable included
C14_forEach_terminates ==
  (Quiescent /\ aborts = 0 /\ ForEachAllOk) =>
    \E p \in ForEachDeliveries :
      /\ log[p].r.tag = "Right"
      /\ IF prog.options.discard THEN log[p].r.right = Void
         ELSE /\ log[p].r.right.tag = "array"
              /\ Len(log[p].r.right.items) = Len(prog.iterable)

\* the programs that forEach runs with forEachConcurrent
ForEachIsConcurrent ==
  prog.options.concurrency.unbounded \/ prog.options.concurrency.n > 1
\* f throws for no item of the program
ForEachNoThrow == \A i \in 1..Len(prog.iterable) : ~Throws(prog.f, prog.iterable[i])
\* the first report of an Err by an item, 0 if there is none
ForEachFirstFailure ==
  IF ForEachFailures = {} THEN 0
  ELSE CHOOSE i \in ForEachFailures : \A j \in ForEachFailures : i <= j
\* the items started before position p of the log
ForEachStarted(p) ==
  { log[i].child : i \in { j \in Events : j < p /\ IsStart(j, "forEach") } }
\* the items that have reported before position p of the log
ForEachReported(p) ==
  { log[i].child : i \in { j \in Events : j < p /\ IsDone(j, "forEach") } }

\* C15: forEach with concurrency above 1 whose f does not throw, once an item
\* has delivered Err: no item is started afterwards; between two turns the
\* child controller is aborted; whatever forEach delivers is that first Err,
\* delivered after every started item has reported; and once nothing remains
\* to run forEach has delivered
C15_forEachConcurrent_first_Err ==
  (ForEachIsConcurrent /\ ForEachNoThrow /\ ForEachFirstFailure # 0) =>
    /\ \A j \in Events : j > ForEachFirstFailure => ~IsStart(j, "forEach")
    /\ Idle => ctrls[fes[1].envWithSignal.currentAbortSignal].aborted
    /\ \A p \in ForEachDeliveries :
         /\ p > ForEachFirstFailure
         /\ log[p].r = log[ForEachFirstFailure].r
         /\ ForEachStarted(p) \subseteq ForEachReported(p)
    /\ Quiescent => ForEachDeliveries # {}

\* of three items run two at a time the second failed while the first was in
\* flight: the first reported Err(Aborted), the third was never started, and
\* forEach delivered the failure of the second
C15_witness ==
  /\ Quiescent /\ aborts = 0 /\ ForEachIsConcurrent /\ ForEachNoThrow
  /\ Len(prog.iterable) = 3 /\ ForEachStarted(Len(log) + 1) = {0, 1}
  /\ ForEachFirstFailure # 0
  /\ log[ForEachFirstFailure].child = 1
  /\ \E i \in ForEachFailures : log[i].child = 0 /\ log[i].r = ResultAborted
  /\ \E p \in ForEachDeliveries : log[p].r = Left(FailureExpected(Val(1)))

\* f has thrown for an item and forEachConcurrent has recorded the failure
ForEachThrew ==
  /\ ForEachIsConcurrent /\ fes # <<>>
  /\ fes[1].failure # undefined /\ fes[1].failure.tag = "Left"
  /\ fes[1].failure.left.tag = "Unexpected"

\* C40: forEach with concurrency above 1, once f has thrown for an item and
\* Err(Unexpected(error)) is recorded: no item is started afterwards; between
\* two turns the child controller is aborted; whatever forEach delivers is
\* that Err; and once nothing remains to run forEach has delivered it, also
\* when the throwing item is the only one
C40_forEachConcurrent_f_throws ==
  ForEachThrew =>
    /\ Cardinality(ForEachStarted(Len(log) + 1)) = fes[1].length
    /\ Idle => ctrls[fes[1].envWithSignal.currentAbortSignal].aborted
    /\ \A p \in ForEachDeliveries : log[p].r = fes[1].failure
    /\ Quiescent => ForEachDeliveries # {}

\* the items in flight: started and not yet reported
ForEachInFlight == ForEachStarted(Len(log) + 1) \ ForEachReported(Len(log) + 1)

\* C16: forEach with a concurrency N above 1: at most N items are in flight
\* in every state; the items are started in input order; and between two
\* turns, when no failure is recorded and fewer than N items are in flight,
\* no item is left unstarted
C16_forEachConcurrent_budget ==
  (~prog.options.concurrency.unbounded /\ prog.options.concurrency.n > 1) =>
    /\ Cardinality(ForEachInFlight) <= prog.options.concurrency.n
    /\ \A i \in Events :
         IsStart(i, "forEach") => log[i].child = Cardinality(ForEachStarted(i))
    /\ (/\ Idle /\ fes[1].failure = undefined
        /\ Cardinality(ForEachInFlight) < prog.options.concurrency.n)
         => ForEachStarted(Len(log) + 1) = 0..(Len(prog.iterable) - 1)

\* two of three items were started at once, the third when one of them had
\* reported, and two are in flight again
C16_witness ==
  /\ Idle /\ aborts = 0 /\ prog.options.concurrency = Concurrency(2)
  /\ Len(prog.iterable) = 3
  /\ Cardinality(ForEachInFlight) = 2 /\ 2 \in ForEachInFlight
  /\ Cardinality(ForEachReported(Len(log) + 1)) = 1
  /\ fes[1].failure = undefined

----------------------------------------------------------------------------
\* The checkpoint of make.  An effect is entered either right after an
\* uninterruptible region during which the owner may have aborted (the
\* environment is interruptible again, under the owner's signal), or as the
\* continuation of a shielded sleep of a child of a race that runs
\* uninterruptible and whose other child has won just before (the environment
\* is uninterruptible, under the aborted signal of the race).

body == sync(Note("body", Void, Val(1)))

Entered ==
  { succeed(Val(1)), fail(Val(1)), die(Val(1)), failWith(FailureExpected(Val(1))),
    fromResult(Right(Val(1))), body, suspend([th |-> "lazy", effect |-> body]),
    sleep(1), flatMap(body, noteArg("f")), map(body, identity),
    andThen(body, noteArg("f")), tap(body, noteArg("f")),
    asResult(onResult(body, noteVoid("finally"))),
    interruptible(body), raceAll(<<body>>), fork(body),
    forEach(<<Item(0, body), Item(1, body)>>, perform,
            [concurrency |-> Concurrency(1), discard |-> FALSE]) }

region == uninterruptible(delay(sync(Note("region", Void, Void)), 1))

AfterRegion(effect) == andThen(region, effect)
Shielded(effect) ==
  uninterruptible(raceAll(<<delay(succeed(Val(0)), 1), andThen(region, effect)>>))

PreflightPrograms ==
  { AfterRegion(effect) : effect \in Entered } \cup { Shielded(effect) : effect \in Entered }

InitPreflight == \E effect \in PreflightPrograms : InitWith(effect)
NextPreflight ==
  \/ Core \/ MaskActions \/ RaceActions
  \/ run_die \/ run_suspend \/ run_map \/ map_onResult \/ run_tap \/ tap_onResult
  \/ tap_onTapResult \/ run_fork \/ queueMicrotask_run
  \/ run_forEach \/ run_forEachSequential \/ forEachSequential_tick
  \/ forEachSequential_while \/ forEachSequential_after
  \/ forEachSequential_tick_end \/ forEachSequential_cb \/ forEachSequential_cb_end
SpecPreflight == InitPreflight /\ [][NextPreflight]_vars

\* C4: an effect built with make, entered while currentInterruptible is true
\* and the current signal is aborted, delivers Err(Aborted) to its onResult
\* and changes nothing else (its body does not run); entered otherwise, and
\* so whenever currentInterruptible is false, its body runs
C4_make_preflight ==
  [][(Running("run") /\ Top.e.op \in MakeOps) =>
       IF Top.env.currentInterruptible /\ ctrls[Top.env.currentAbortSignal].aborted
         THEN /\ stack' = <<CallF(Top.k, ResultAborted)>> \o Rest
              /\ UNCHANGED others
         ELSE Head(stack') = BodyF(Top.e, Top.env, Top.k)]_vars

\* the owner aborted during the region, the region ended, the effect after it
\* was entered and has delivered Err(Aborted) without its body having run
C4_witness ==
  /\ prog = AfterRegion(body)
  /\ handles[1].result = ResultAborted
  /\ \E i \in Events : IsEval(i, "region")
  /\ \A i \in Events : ~IsEval(i, "body")

\* the owner aborted the handle while the region of andThen(region, effect)
\* was running: before the region made its note
AbortedInRegion ==
  /\ prog.op = "andThen"
  /\ \E a \in { i \in Events : log[i].ev = "unsafeAbort" } :
       \A i \in Events : IsEval(i, "region") => a < i

\* C38: when the owner aborts the handle while uninterruptible(self) runs,
\* self still runs to completion and the region delivers self's result to the
\* continuation of the caller; the effect after the region is entered in the
\* caller's environment (the signal of the handle, interruptible); being
\* built with make it delivers Err(Aborted) and nothing of it runs, so that
\* the handle's result is Err(Aborted)
C38_deferred_observation ==
  AbortedInRegion =>
    /\ (Calling("andThen") /\ Top.k.next = emitK(1)) =>
         (Top.r = Right(Void) /\ Top.k.env = EnvMake(1))
    /\ (Running("run") /\ Top.e = prog.f) =>
         (Top.env = EnvMake(1) /\ \E i \in Events : IsEval(i, "region"))
    /\ \A i \in Events :
         log[i].ev \in {"unsafeAbort", "emit"} \/ IsEval(i, "region")
    /\ handles[1].result \in {undefined, ResultAborted}
    /\ (stack = <<>> /\ timers = <<>> /\ microtasks = <<>>) =>
         /\ \E i \in Events : IsEval(i, "region")
         /\ handles[1].result = ResultAborted

\* the owner aborted during the region, the region ended a turn later, and
\* flatMap(body, f) after it has delivered Err(Aborted) to the handle
C38_witness ==
  /\ AbortedInRegion
  /\ prog = AfterRegion(flatMap(body, noteArg("f")))
  /\ stack = <<>> /\ timers = <<>> /\ microtasks = <<>>
  /\ \E i \in Events : IsEval(i, "region")
  /\ handles[1].result = ResultAborted

----------------------------------------------------------------------------
\* acquireUseRelease, run by runFork as it is, under uninterruptible, or under
\* uninterruptible(interruptible(...)); the owner may abort between two turns

\* acquire: sync(() => 123) or fail(8), at once or delayed
Acquire(c) ==
  LET self == IF c.ok THEN sync(Note("acquire", Void, Val(123))) ELSE fail(Val(8)) IN
  IF c.async THEN delay(self, 1) ELSE self
\* use: (a) => <note "use", then an effect with the chosen outcome>
Use(c) == [fn |-> "use", outcome |-> c.outcome, async |-> c.async]
\* release: (a, result) => <note "release" with both>
Release(c) == [fn |-> "release", async |-> c.async]

AcquireUseReleaseCases ==
  [acquire : [ok : BOOLEAN, async : BOOLEAN],
   use : [outcome : {"Ok", "Expected", "Unexpected", "Aborted"}, async : BOOLEAN],
   release : [async : BOOLEAN]]
AcquireUseReleaseOf(c) ==
  acquireUseRelease(Acquire(c.acquire), Use(c.use), Release(c.release))

AcquireUseReleasePrograms ==
  UNION { { AcquireUseReleaseOf(c),
            uninterruptible(AcquireUseReleaseOf(c)),
            uninterruptible(interruptible(AcquireUseReleaseOf(c))) } :
          c \in AcquireUseReleaseCases }

InitAcquireUseRelease == \E effect \in AcquireUseReleasePrograms : InitWith(effect)
NextAcquireUseRelease == Core \/ MaskActions \/ run_die
SpecAcquireUseRelease == InitAcquireUseRelease /\ [][NextAcquireUseRelease]_vars

\* the case of the program: the arguments of its acquireUseRelease
Wrapped == prog.op = "uninterruptible"
Rewrapped == Wrapped /\ prog.self.op = "interruptible"
Case ==
  CHOOSE c \in AcquireUseReleaseCases :
    prog \in { AcquireUseReleaseOf(c), uninterruptible(AcquireUseReleaseOf(c)),
               uninterruptible(interruptible(AcquireUseReleaseOf(c))) }
\* what the effect use(a) delivers when nothing aborts it, and what the whole
\* acquireUseRelease then delivers
UseResult ==
  CASE Case.use.outcome = "Ok" -> Right(Val(123))
    [] Case.use.outcome = "Expected" -> Left(FailureExpected(Val(1)))
    [] Case.use.outcome = "Unexpected" -> Left(FailureUnexpected(Val(2)))
    [] Case.use.outcome = "Aborted" -> ResultAborted
Undisturbed == IF Case.acquire.ok THEN UseResult ELSE Left(FailureExpected(Val(8)))

Evals(name) == { i \in Events : IsEval(i, name) }
Aborts == { i \in Events : log[i].ev = "unsafeAbort" }
Emits == { i \in Events : log[i].ev = "emit" }

\* C5: release is invoked at most once, only after acquire delivered Ok(a),
\* with a and with the result of use (the result use was made to deliver, or
\* Err(Aborted) if the owner aborted before); what the combinator delivers is
\* that result; when nothing remains to run and acquire delivered Ok, release
\* has been invoked and the result delivered; if acquire delivers Err,
\* release is never invoked and that Err is delivered
C5_acquireUseRelease_release_once ==
  /\ Cardinality(Evals("release")) <= 1
  /\ Cardinality(Emits) <= 1
  /\ \A i \in Evals("release") :
       /\ \E j \in Evals("acquire") : j < i
       /\ log[i].arg.a = Val(123)
       /\ log[i].arg.result \in {UseResult, ResultAborted}
       /\ log[i].arg.result # UseResult => \E j \in Aborts : j < i
       /\ \A j \in Emits : j > i /\ log[j].r = log[i].arg.result
  /\ (Quiescent /\ Evals("acquire") # {}) =>
       /\ Cardinality(Evals("release")) = 1
       /\ Cardinality(Emits) = 1
  /\ ~Case.acquire.ok =>
       /\ Evals("release") = {}
       /\ \A j \in Emits : log[j].r = Left(FailureExpected(Val(8)))
       /\ Quiescent => Emits # {}

\* acquire delivered Ok, the owner aborted while use was sleeping, release
\* was invoked with Err(Aborted) and the handle has that result
C5_witness ==
  /\ ~Wrapped /\ Case.use.outcome = "Ok" /\ Quiescent
  /\ \E i \in Evals("use") : \E j \in Aborts : \E k \in Evals("release") :
       /\ i < j /\ j < k
       /\ log[k].arg = [a |-> Val(123), result |-> ResultAborted]
  /\ handles[1].result = ResultAborted

\* the owner aborted before acquire had delivered: acquire pending
AbortedDuringAcquire ==
  /\ ~Wrapped /\ Case.acquire.ok
  /\ \E j \in Aborts : \A i \in Evals("acquire") : j < i

\* C6: acquireUseRelease run by runFork and aborted while acquire is pending:
\* use is never executed, release is invoked only with (a, Err(Aborted)), the
\* handle's result is only Err(Aborted); when nothing remains to run, acquire
\* has completed, release has run once and the handle has its result
C6_abort_during_acquire ==
  AbortedDuringAcquire =>
    /\ Evals("use") = {}
    /\ \A k \in Evals("release") :
         log[k].arg = [a |-> Val(123), result |-> ResultAborted]
    /\ handles[1].result \in {undefined, ResultAborted}
    /\ Quiescent =>
         /\ Cardinality(Evals("acquire")) = 1
         /\ Cardinality(Evals("release")) = 1
         /\ handles[1].result = ResultAborted

C6_witness ==
  /\ AbortedDuringAcquire /\ Quiescent
  /\ Case.use.outcome = "Ok"
  /\ Evals("acquire") # {} /\ Evals("release") # {}
  /\ handles[1].result = ResultAborted

\* what uninterruptible(acquireUseRelease(...)) shows of an undisturbed run:
\* release is invoked with the result use was made to deliver and, when
\* nothing remains to run, acquire, use and release have each run once
RunsUndisturbed ==
  /\ \A k \in Evals("release") : log[k].arg = [a |-> Val(123), result |-> UseResult]
  /\ (Quiescent /\ Case.acquire.ok) =>
       /\ Cardinality(Evals("acquire")) = 1
       /\ Cardinality(Evals("use")) = 1
       /\ Cardinality(Evals("release")) = 1

\* C7, as claimed: under uninterruptible(self), whatever self is and whenever
\* the owner aborts, the handle's result is the one self delivers without an
\* abort; for self = acquireUseRelease(...), acquire, use and release all run
C7_uninterruptible_any_self ==
  Wrapped =>
    /\ handles[1].result \in {undefined, Undisturbed}
    /\ Quiescent => handles[1].result = Undisturbed
    /\ ~Rewrapped => RunsUndisturbed

\* C7, amended: the same for a self that does not re-enable interruption with
\* interruptible(...)
C7_uninterruptible_not_observed ==
  (Wrapped /\ ~Rewrapped) =>
    /\ handles[1].result \in {undefined, Undisturbed}
    /\ Quiescent => handles[1].result = Undisturbed
    /\ RunsUndisturbed

\* uninterruptible(acquireUseRelease(...)) aborted while acquire was pending
\* has run acquire, use and release, and the handle's result is Ok(123)
C7_witness ==
  /\ Wrapped /\ ~Rewrapped /\ Quiescent
  /\ \E j \in Aborts : \E i \in Evals("acquire") : j < i
  /\ Evals("use") # {} /\ Evals("release") # {}
  /\ handles[1].result = Right(Val(123))

----------------------------------------------------------------------------
\* A scope: finalizers f1..fn are added, then close(result) runs, in the
\* environment of runFork or under uninterruptible

MaxFinalizers == 3

\* finalizer number n: (result) => <note "finalizer" with n and result, then
\* void or fail(n), at once or delayed>
Finalizer(c, n) == [fn |-> "finalizer", n |-> n, async |-> c.async, ok |-> c.ok]

WithScope(cs, result) ==
  flatMap(makeScope,
          [fn |-> "withScope", result |-> result,
           finalizers |-> [i \in 1..Len(cs) |-> Finalizer(cs[i], i)]])

ScopePrograms ==
  UNION { { WithScope(cs, result), uninterruptible(WithScope(cs, result)) } :
          cs \in UNION { [1..n -> [async : BOOLEAN, ok : BOOLEAN]] : n \in 0..MaxFinalizers },
          result \in {Right(Val(0)), Left(FailureExpected(Val(9)))} }

InitScope == \E effect \in ScopePrograms : InitWith(effect)
NextScope ==
  \/ Core \/ run_map \/ map_onResult
  \/ makeScope_evaluate \/ ScopeImpl_addFinalizer_evaluate \/ ScopeImpl_close_evaluate
  \/ run_forEach \/ run_forEachSequential \/ forEachSequential_tick
  \/ forEachSequential_while \/ forEachSequential_after
  \/ forEachSequential_tick_end \/ forEachSequential_cb \/ forEachSequential_cb_end
SpecScope == InitScope /\ [][NextScope]_vars

\* the finalizers the program registers, in order, and the result it closes with
WithScopeOf == IF prog.op = "uninterruptible" THEN prog.self ELSE prog
Registered == WithScopeOf.f.finalizers
\* the positions of the log at which a finalizer was started, in order
StartOf(j) ==
  CHOOSE i \in Evals("finalizer") :
    Cardinality({ k \in Evals("finalizer") : k < i }) = j - 1

\* C8: the j-th finalizer close(r) starts is the j-th last one registered, it
\* receives r, and by then the j-1 finalizers started before it have
\* delivered; unless the owner aborts an interruptible close, all are started
C8_close_reverse_order ==
  LET n == Len(Registered) IN
  /\ Cardinality(Evals("finalizer")) <= n
  /\ \A j \in 1..Cardinality(Evals("finalizer")) :
       /\ log[StartOf(j)].arg = [n |-> n + 1 - j, result |-> WithScopeOf.f.result]
       /\ \A c \in 0..(j - 2) :
            \E d \in Events : d < StartOf(j) /\ IsDone(d, "forEach") /\ log[d].child = c
  /\ (Quiescent /\ (aborts = 0 \/ prog.op = "uninterruptible")) =>
       Cardinality(Evals("finalizer")) = n

\* three delayed finalizers have all been started by a close
C8_witness ==
  /\ Len(Registered) = 3 /\ \A i \in 1..3 : Registered[i].async
  /\ Cardinality(Evals("finalizer")) = 3
  /\ log[StartOf(1)].arg.n = 3 /\ log[StartOf(3)].arg.n = 1
  /\ Quiescent

\* the result close owes: Ok(void) if every finalizer delivers Ok, otherwise
\* the failure of the first failing one in the order of execution, which is
\* the last registered of the failing ones
CloseFailing == { i \in DOMAIN Registered : ~Registered[i].ok }
CloseResult ==
  IF CloseFailing = {} THEN Right(Void)
  ELSE Left(FailureExpected(Val(CHOOSE i \in CloseFailing :
                                  \A j \in CloseFailing : j <= i)))

\* C34: close(result) on an Open scope: the scope is Closed with result while
\* its finalizers run; unless the owner aborts an interruptible close, every
\* registered finalizer has run when nothing is left to run, those after a
\* failing one too, and close has delivered Ok(void) if all of them delivered
\* Ok and otherwise the failure of the first failing one; it delivers nothing
\* else
C34_close_first_failure ==
  /\ Evals("finalizer") # {} =>
       scopes[1].tag = "Closed" /\ scopes[1].result = WithScopeOf.f.result
  /\ (aborts = 0 \/ prog.op = "uninterruptible") =>
       /\ \A e \in Emits : log[e].r = CloseResult
       /\ Quiescent => /\ Cardinality(Evals("finalizer")) = Len(Registered)
                       /\ handles[1].result = CloseResult

----------------------------------------------------------------------------
\* forEach in a forked handle: fork(forEach(...)) followed by a sleep that
\* outlasts the items; the owner of the root handle may abort between two
\* turns, which calls unsafeAbort of the forked handle through the listener
\* its constructor put on the parent signal

\* item number i: f(item) is sync(() => { done.push(i); return i }), delayed
ForkedItem(ms, i) ==
  Item(i, LET self == sync(Note("done", Val(i), Val(i))) IN
          IF ms = 0 THEN self ELSE delay(self, ms))

ForkedPrograms ==
  { andThen(fork(forEach([i \in 1..Len(ms) |-> ForkedItem(ms[i], i - 1)], perform,
                         [concurrency |-> c, discard |-> FALSE])),
            sleep(MaxItems * MaxDelay + 1)) :
      ms \in UNION { [1..n -> 0..MaxDelay] : n \in 0..MaxItems },
      c \in {Concurrency(1), Concurrency(2), Unbounded} }

InitForked == \E effect \in ForkedPrograms : InitWith(effect)
NextForked ==
  \/ make \/ unsafeMakeNoAbort \/ try_end
  \/ run_succeed \/ run_failWith \/ run_sync \/ run_andThen \/ andThen_onResult
  \/ run_async \/ async_onAbort \/ async_resume
  \/ AbortController_abort \/ dispatchEvent \/ setTimeout_fire
  \/ HandleImpl_emit \/ HandleImpl_emit_clear
  \/ HandleImpl_unsafeAbort \/ owner_unsafeAbort
  \/ run_uninterruptible \/ run_fork \/ queueMicrotask_run
  \/ forkSignal_onAbort \/ signal_removeEventListener
  \/ run_forEach \/ run_forEachSequential \/ forEachSequential_tick
  \/ forEachSequential_while \/ forEachSequential_after
  \/ forEachSequential_tick_end \/ forEachSequential_cb \/ forEachSequential_cb_end
  \/ unsafeMake \/ run_forEachConcurrent \/ forEachConcurrent_pump
  \/ forEachConcurrent_while \/ forEachConcurrent_cb \/ forEachConcurrent_cb_end
  \/ forEachConcurrent_onResult
SpecForked == InitForked /\ [][NextForked]_vars

\* the forEach that runs in the forked handle, handle 2
Forked == prog.self.self
\* the emissions of the forked handle
ForkedEmits == { i \in Emits : log[i].h = 2 }
\* the owner aborted before the forked handle had a result
ForkedAborted == \E a \in Aborts : \A e \in ForkedEmits : a < e

\* C17: forEach with concurrency 1 in a forked handle: at most one item is in
\* flight; an item but the first is started only after the item before it
\* delivered Ok; the item bodies that have run are those of a prefix of the
\* input, in order, and none runs after an abort; between two turns, once the
\* handle was aborted before it had a result and the forked effect has been
\* started, its result is Err(Aborted)
C17_forked_forEachSequential_abort ==
  Forked.options.concurrency = Concurrency(1) =>
    /\ Cardinality(ForEachInFlight) <= 1
    /\ \A s \in Events :
         (IsStart(s, "forEach") /\ log[s].child > 0) =>
           \E d \in Events : /\ d < s /\ IsDone(d, "forEach")
                              /\ log[d].child = log[s].child - 1
                              /\ log[d].r.tag = "Right"
    /\ \A e \in Evals("done") :
         /\ log[e].arg = Val(Cardinality({ i \in Evals("done") : i < e }))
         /\ \A a \in Aborts : e < a
    /\ (Idle /\ microtasks = <<>> /\ ForkedAborted)
         => handles[2].result = ResultAborted

\* C18: forEach with concurrency above 1 or unbounded in a forked handle,
\* aborted by the owner: no item is started and no item body runs afterwards;
\* between two turns every item that was in flight has reported Err(Aborted)
\* and the child controller of forEach is aborted; the handle gets its result
\* when every started item has reported; and once the handle was aborted
\* before it had a result and the forked effect has been started, its result
\* is Err(Aborted)
C18_forked_forEachConcurrent_abort ==
  Forked.options.concurrency # Concurrency(1) =>
    /\ \A a \in Aborts :
         /\ \A s \in Events : IsStart(s, "forEach") => s < a
         /\ \A e \in Evals("done") : e < a
         /\ Idle =>
              \A c \in ForEachStarted(a) \ ForEachReported(a) :
                \E d \in Events : /\ d > a /\ IsDone(d, "forEach")
                                   /\ log[d].child = c /\ log[d].r = ResultAborted
    /\ (Idle /\ fes # <<>> /\ ForkedAborted)
         => ctrls[fes[1].envWithSignal.currentAbortSignal].aborted
    /\ \A e \in ForkedEmits : ForEachStarted(e) \subseteq ForEachReported(e)
    /\ (Idle /\ microtasks = <<>> /\ ForkedAborted)
         => handles[2].result = ResultAborted

----------------------------------------------------------------------------
\* The root handle and its owner: runFork of a sequential forEach (which
\* calls its onResult twice when its last item fails), as it is or under
\* uninterruptible; between two turns the owner may add an observer or call
\* unsafeAbort, several times

MaxHandleItems == 2

HandlePrograms ==
  LET each == { forEach([i \in 1..Len(cs) |-> ForEachItem(cs[i], i - 1)], perform,
                        [concurrency |-> Concurrency(1), discard |-> FALSE]) :
                  cs \in UNION { [1..n -> [ok : BOOLEAN, ms : 0..MaxDelay,
                                           throws : {FALSE}]] :
                                   n \in 1..MaxHandleItems } }
  IN each \cup { uninterruptible(effect) : effect \in each }

InitHandle == \E effect \in HandlePrograms : InitWith(effect)
NextHandle ==
  \/ Core \/ MaskActions
  \/ run_forEach \/ run_forEachSequential \/ forEachSequential_tick
  \/ forEachSequential_while \/ forEachSequential_after
  \/ forEachSequential_tick_end \/ forEachSequential_cb \/ forEachSequential_cb_end
  \/ HandleImpl_addObserver \/ owner_addObserver \/ owner_observer
  \/ owner_unsafeAbort_again
SpecHandle == InitHandle /\ [][NextHandle]_vars

\* the first call of emit, 0 if there is none
FirstEmit == IF Emits = {} THEN 0 ELSE CHOOSE i \in Emits : \A j \in Emits : i <= j
\* the observers the owner added, and the calls of one of them
Added == { i \in Events : log[i].ev = "addObserver" }
Observed(id) == { i \in Events : log[i].ev = "observed" /\ log[i].id = id }

\* C19: the result of the handle is undefined until emit is called and then
\* what the first call of emit carried, whatever later calls carry; an
\* observer is called at most once, with that result and after it was set;
\* between two turns, once the result is set, every observer added has been
\* called, one added after the result was set in the call of addObserver
\* itself, and the observer set is empty; before that it holds the observers
\* added
C19_handle_single_emission ==
  /\ handles[1].result = IF Emits = {} THEN undefined ELSE log[FirstEmit].r
  /\ \A a \in Added :
       /\ Cardinality(Observed(log[a].id)) <= 1
       /\ \A o \in Observed(log[a].id) :
            /\ Emits # {} /\ o > FirstEmit /\ o > a
            /\ log[o].r = log[FirstEmit].r
       /\ (Idle /\ Emits # {}) => Observed(log[a].id) # {}
       /\ (Idle /\ Emits # {} /\ a > FirstEmit) => (a + 1) \in Observed(log[a].id)
  /\ (Idle /\ Emits # {}) => handles[1].observers = <<>>
  /\ (Idle /\ Emits = {}) =>
       { handles[1].observers[i].id : i \in DOMAIN handles[1].observers }
         = { log[a].id : a \in Added }

\* emit was called twice with different results, one observer was added
\* before the first call and one after it, and both have been called
C19_witness ==
  /\ Idle /\ Cardinality(Emits) = 2
  /\ \E e \in Emits : log[e].r # log[FirstEmit].r
  /\ \E a, b \in Added : a < FirstEmit /\ FirstEmit < b
  /\ \A a \in Added : Observed(log[a].id) # {}

\* C20: a call of unsafeAbort by the owner that is not the first, or that is
\* made when the handle has its result, does nothing but call abort() on the
\* controller, which returns at once: from the call to its return no variable
\* but the call stack changes, so the result of the handle and the calls of
\* the observers are those of a run without that call
C20_unsafeAbort_idempotent ==
  [][(/\ stack \in {<<unsafeAbortL(1)>>, <<AbortF(handles[1].controller)>>}
      /\ log # <<>> /\ log[Len(log)].ev = "unsafeAbort"
      /\ (Cardinality(Aborts) >= 2 \/ Emits # {}))
       => /\ stack' \in {<<>>, <<AbortF(handles[1].controller)>>}
          /\ UNCHANGED others]_vars

\* the owner called unsafeAbort twice while the effect was running and once
\* more when the handle had its result, and an observer it added first was
\* called once
C20_witness ==
  /\ Idle /\ Emits # {} /\ handles[1].result = log[FirstEmit].r
  /\ Cardinality({ a \in Aborts : a < FirstEmit }) = 2
  /\ \E a \in Aborts : a > FirstEmit
  /\ \E a \in Added : a < FirstEmit /\ Cardinality(Observed(log[a].id)) = 1

----------------------------------------------------------------------------
\* scoped(self), run by runFork; the owner may abort between two turns.  self
\* either registers finalizers f1..fn in the scope it is given and then
\* delivers a result, or is an acquireRelease (followed or not by a sleep)

\* what self delivers in the end: Ok(0) or Err(Expected(9)), at once or delayed
ScopedBody(c) ==
  LET self == IF c.ok THEN succeed(Val(0)) ELSE fail(Val(9)) IN
  IF c.async THEN delay(self, 1) ELSE self

ScopedFinalizerPrograms ==
  { scoped(flatMap(scope_, [fn |-> "addFinalizers",
                            finalizers |-> [i \in 1..Len(cs) |-> Finalizer(cs[i], i)],
                            effect |-> ScopedBody(b)])) :
      cs \in UNION { [1..n -> [async : BOOLEAN, ok : {TRUE}]] : n \in 0..MaxFinalizers },
      b \in [ok : BOOLEAN, async : BOOLEAN] }

ScopedAcquirePrograms ==
  UNION { { scoped(acquireRelease(Acquire(c.acquire), Release(c.release))),
            scoped(andThen(acquireRelease(Acquire(c.acquire), Release(c.release)),
                           sleep(1))) } :
          c \in [acquire : [ok : BOOLEAN, async : BOOLEAN],
                 release : [async : BOOLEAN]] }

InitScoped ==
  \E effect \in ScopedFinalizerPrograms \cup ScopedAcquirePrograms : InitWith(effect)
NextScoped ==
  \/ Core \/ MaskActions \/ run_map \/ map_onResult
  \/ run_tap \/ tap_onResult \/ tap_onTapResult
  \/ run_service \/ run_provideService \/ scoped_evaluate
  \/ ScopeImpl_addFinalizer_evaluate \/ ScopeImpl_close_evaluate
  \/ run_forEach \/ run_forEachSequential \/ forEachSequential_tick
  \/ forEachSequential_while \/ forEachSequential_after
  \/ forEachSequential_tick_end \/ forEachSequential_cb \/ forEachSequential_cb_end
SpecScoped == InitScoped /\ [][NextScoped]_vars

\* the self of the program scoped(self)
ScopedSelf == prog.evaluate.self
ScopedRegisters == ScopedSelf.op = "flatMap" /\ ScopedSelf.f.fn = "addFinalizers"
\* the finalizers self registers, and what self delivers when nothing aborts it
ScopedFinalizers == ScopedSelf.f.finalizers
ScopedResult ==
  IF \E a \in BOOLEAN : ScopedSelf.f.effect = ScopedBody([ok |-> TRUE, async |-> a])
    THEN Right(Val(0)) ELSE Left(FailureExpected(Val(9)))

\* C21: scoped(self) delivers only when its scope is Closed with the result
\* delivered, which is the result of self (the one self was made to deliver,
\* unless the owner aborted), and when every finalizer self registered has
\* been started with that result and has completed; and when nothing remains
\* to run scoped(self) has delivered -- for any number of finalizers, zero
\* included
C21_scoped_closes_before_delivery ==
  ScopedRegisters =>
    /\ \A e \in Emits :
         /\ scopes[1].tag = "Closed" /\ scopes[1].result = log[e].r
         /\ aborts = 0 => log[e].r = ScopedResult
         /\ \A n \in 1..Len(ScopedFinalizers) :
              \E i \in Evals("finalizer") :
                /\ i < e /\ log[i].arg = [n |-> n, result |-> log[e].r]
         /\ Cardinality({ d \in Events : d < e /\ IsDone(d, "forEach")
                                         /\ log[d].r.tag = "Right" })
              = Len(ScopedFinalizers)
    /\ Quiescent => Emits # {}

\* the acquireRelease of the program, without its uninterruptible
AcquireReleaseOf ==
  LET e == IF ScopedSelf.op = "andThen" THEN ScopedSelf.self ELSE ScopedSelf IN
  IF e.op = "uninterruptible" THEN e.self ELSE e
AcquireOk ==
  \E a \in BOOLEAN : AcquireReleaseOf.f.acquire = Acquire([ok |-> TRUE, async |-> a])
\* (result) => release(a, result), the finalizer acquireRelease registers
ReleaseFinalizer ==
  [fn |-> "acquireRelease_release", a |-> Val(123), release |-> AcquireReleaseOf.f.release]

\* C22: scoped(acquireRelease(acquire, release)), aborted or not by the owner
\* at any moment.  release is called at most once, after acquire delivered
\* Ok(a), with a and the result the scope was closed with.  If acquire is made
\* to deliver Ok(a): between two turns, once acquire has run and until the
\* scope is closed, the scope holds the finalizer calling release and no
\* other; when nothing remains to run acquire has run (an abort before did not
\* interrupt it) and release has been called once.  If acquire delivers Err,
\* the scope never holds a finalizer and release is never called.
C22_acquireRelease_under_scoped ==
  ~ScopedRegisters =>
    /\ Cardinality(Evals("release")) <= 1
    /\ \A i \in Evals("release") :
         /\ \E j \in Evals("acquire") : j < i
         /\ scopes[1].tag = "Closed"
         /\ log[i].arg = [a |-> Val(123), result |-> scopes[1].result]
    /\ AcquireOk =>
         /\ (Idle /\ Evals("acquire") # {} /\ scopes[1].tag = "Open")
              => scopes[1].finalizers = <<ReleaseFinalizer>>
         /\ Quiescent => /\ Cardinality(Evals("acquire")) = 1
                         /\ Cardinality(Evals("release")) = 1
    /\ ~AcquireOk =>
         /\ Evals("release") = {}
         /\ \A i \in DOMAIN scopes : scopes[i].finalizers = <<>>

\* the owner aborted while acquire was sleeping; acquire then ran, and release
\* was called with Ok(123) and the result the scope was closed with
C22_witness ==
  /\ ~ScopedRegisters /\ AcquireOk /\ Quiescent
  /\ \E j \in Aborts : \E i \in Evals("acquire") : \E k \in Evals("release") :
       /\ j < i /\ i < k
       /\ log[k].arg = [a |-> Val(123), result |-> scopes[1].result]

----------------------------------------------------------------------------
\* Error handling: catchAll, matchMicro, match, catchAllFailure,
\* matchFailureMicro and ignore over a self that delivers Ok, Err(Expected),
\* Err(Unexpected) or Err(Aborted), at once, after a delay, or after a delay
\* under uninterruptible; the owner may abort between two turns

CatchCases ==
  [outcome : {"Ok", "Expected", "Unexpected", "Aborted"},
   mode : {"now", "delayed", "shielded"},
   h : {succeed(Val(7)), fail(Val(5))}]

CatchSelf(c) ==
  LET self == CASE c.outcome = "Ok" -> succeed(Val(0))
                [] c.outcome = "Expected" -> fail(Val(1))
                [] c.outcome = "Unexpected" -> die(Val(2))
                [] c.outcome = "Aborted" -> failWith(FailureAborted)
  IN CASE c.mode = "now" -> self
       [] c.mode = "delayed" -> delay(self, 1)
       [] c.mode = "shielded" -> uninterruptible(delay(self, 1))

\* the handlers: onFailure returns the effect c.h, onSuccess succeed(8)
CatchOptions(c) ==
  [onFailure |-> handler("onFailure", c.h),
   onSuccess |-> handler("onSuccess", succeed(Val(8)))]

ExpectedOnlyOf(c) ==
  { catchAll(CatchSelf(c), handler("onFailure", c.h)),
    matchMicro(CatchSelf(c), CatchOptions(c)),
    match(CatchSelf(c), [onFailure |-> pure("onFailure", Val(7)),
                         onSuccess |-> pure("onSuccess", Val(8))]) }
EveryFailureOf(c) ==
  { catchAllFailure(CatchSelf(c), handler("onFailure", c.h)),
    matchFailureMicro(CatchSelf(c), CatchOptions(c)) }

CatchPrograms ==
  UNION { ExpectedOnlyOf(c) \cup EveryFailureOf(c) \cup { ignore(CatchSelf(c)) } :
          c \in CatchCases }

InitCatch == \E effect \in CatchPrograms : InitWith(effect)
NextCatch ==
  \/ make \/ unsafeMakeNoAbort \/ try_end
  \/ run_succeed \/ run_fail \/ run_die \/ run_failWith \/ run_sync
  \/ run_andThen \/ andThen_onResult
  \/ run_async \/ async_onAbort \/ async_resume
  \/ AbortController_abort \/ dispatchEvent \/ setTimeout_fire
  \/ HandleImpl_emit \/ HandleImpl_emit_clear
  \/ HandleImpl_unsafeAbort \/ owner_unsafeAbort
  \/ run_uninterruptible
  \/ run_catchAllFailure \/ catchAllFailure_onResult
  \/ run_matchFailureMicro \/ matchFailureMicro_onResult
SpecCatch == InitCatch /\ [][NextCatch]_vars

\* what self delivered to the callback of the combinator
CatchReports ==
  { d \in Events : IsDone(d, "catchAllFailure") \/ IsDone(d, "matchFailureMicro") }
IsExpectedOnly == \E c \in CatchCases : prog \in ExpectedOnlyOf(c)
IsEveryFailure == \E c \in CatchCases : prog \in EveryFailureOf(c)
IsIgnore == \E c \in CatchCases : prog = ignore(CatchSelf(c))
\* the owner aborted the handle before position d of the log
AbortedBefore(d) == \E a \in Aborts : a < d
\* what the effect the failure handler returns delivers when it runs
HandlerResult ==
  IF \E c \in CatchCases : c.h = succeed(Val(7)) /\ prog \in EveryFailureOf(c)
    THEN Right(Val(7)) ELSE Left(FailureExpected(Val(5)))

\* C23, as claimed: catchAll, matchMicro and match call the failure handler
\* only when self delivered Err(Expected(e)), with e; when self delivers
\* Err(Aborted) or Err(Unexpected(d)) the handler is not called and the
\* combinator delivers that same failure
C23_expected_only_as_claimed ==
  IsExpectedOnly =>
    /\ \A i \in Evals("onFailure") :
         \E d \in CatchReports : d < i /\ log[d].r = Left(FailureExpected(log[i].arg))
    /\ \A d \in CatchReports :
         (log[d].r.tag = "Left" /\ log[d].r.left.tag # "Expected") =>
           /\ Evals("onFailure") = {}
           /\ \A e \in Emits : log[e].r = log[d].r
           /\ Quiescent => Emits # {}

\* C23, amended: the same, but the failure is delivered through failWith,
\* which is a cancellation checkpoint: when the owner aborted the handle
\* before self delivered (self being uninterruptible), Err(Aborted) is
\* delivered in place of Err(Unexpected(d))
C23_expected_only ==
  IsExpectedOnly =>
    /\ \A i \in Evals("onFailure") :
         \E d \in CatchReports : d < i /\ log[d].r = Left(FailureExpected(log[i].arg))
    /\ \A d \in CatchReports :
         (log[d].r.tag = "Left" /\ log[d].r.left.tag # "Expected") =>
           /\ Evals("onFailure") = {}
           /\ \A e \in Emits :
                log[e].r = IF AbortedBefore(d) THEN ResultAborted ELSE log[d].r
           /\ Quiescent => Emits # {}

\* self delivered Err(Unexpected(2)) with no abort: no handler was called and
\* the handle has that failure
C23_witness ==
  /\ IsExpectedOnly /\ Quiescent /\ aborts = 0
  /\ \E d \in CatchReports : log[d].r = Left(FailureUnexpected(Val(2)))
  /\ Evals("onFailure") = {}
  /\ handles[1].result = Left(FailureUnexpected(Val(2)))

\* C24: catchAllFailure and matchFailureMicro call the failure handler for
\* every Err(F) self delivers, Err(Aborted) caused by the abort of the handle
\* and Err(Unexpected(d)) included, with F, in the callback itself, and for
\* nothing else; the combinator delivers what the effect the handler returned
\* delivers when run in the environment of the combinator: its own result,
\* or Err(Aborted) if the owner aborted the handle before; and it delivers
\* whenever self does
C24_every_failure_intercepted ==
  IsEveryFailure =>
    /\ Cardinality(CatchReports) <= 1
    /\ \A d \in CatchReports :
         log[d].r.tag = "Left" =>
           /\ (d + 1) \in Evals("onFailure") /\ log[d + 1].arg = log[d].r.left
           /\ \A e \in Emits :
                log[e].r = IF AbortedBefore(d) THEN ResultAborted ELSE HandlerResult
    /\ \A i \in Evals("onFailure") :
         (i - 1) \in CatchReports /\ log[i - 1].r = Left(log[i].arg)
    /\ Quiescent => (CatchReports # {} /\ Emits # {})

\* the owner aborted the handle while self was sleeping: the handler was
\* called with Aborted, and the effect it returned delivered Err(Aborted)
C24_witness ==
  /\ IsEveryFailure /\ Quiescent
  /\ \E a \in Aborts : \E d \in CatchReports :
       /\ a < d /\ log[d].r = ResultAborted
       /\ (d + 1) \in Evals("onFailure") /\ log[d + 1].arg = FailureAborted
  /\ handles[1].result = ResultAborted

\* C25: ignore(self) delivers Ok(void) when self delivers Ok(a) and when self
\* delivers Err(Expected(e)), and Err(Unexpected(d)) when self delivers that;
\* it delivers whenever self does
C25_ignore ==
  IsIgnore =>
    \A d \in CatchReports :
      /\ \A e \in Emits :
           IF log[d].r.tag = "Right" THEN log[e].r = Right(Void)
           ELSE IF log[d].r.left.tag = "Expected" THEN log[e].r = Right(Void)
           ELSE IF log[d].r.left.tag = "Unexpected" THEN log[e].r = log[d].r
           ELSE TRUE
      /\ Quiescent => Emits # {}

----------------------------------------------------------------------------
\* asResult and fromResult.  An effect is entered as runFork enters it, after
\* an uninterruptible region during which the owner may have aborted (so in an
\* interruptible environment whose signal is aborted), or inside such a region

EntryModes == {"direct", "after", "shielded"}
Entry(m, effect) ==
  CASE m = "direct" -> effect
    [] m = "after" -> andThen(region, effect)
    [] m = "shielded" -> uninterruptible(andThen(sleep(1), effect))

\* the results r of fromResult(r) and succeed(r)
ReifyResults ==
  { Right(Val(0)), Left(FailureExpected(Val(1))), Left(FailureUnexpected(Val(2))),
    ResultAborted }

\* flatMap(asResult(e), fromResult)
RoundTrip(e) == flatMap(asResult(e), [fn |-> "fromResult"])

AsResultPrograms(m) == { Entry(m, asResult(CatchSelf(c))) : c \in CatchCases }
FromResultPrograms(m, r) == { Entry(m, asResult(fromResult(r))), Entry(m, succeed(r)) }
RoundTripPrograms(c) == { RoundTrip(CatchSelf(c)), CatchSelf(c) }

ReifyPrograms ==
  UNION ({ AsResultPrograms(m) : m \in EntryModes }
         \cup { FromResultPrograms(m, r) : m \in EntryModes, r \in ReifyResults }
         \cup { RoundTripPrograms(c) : c \in CatchCases })

InitReify == \E effect \in ReifyPrograms : InitWith(effect)
NextReify == Core \/ run_die
SpecReify == InitReify /\ [][NextReify]_vars

\* the mode in which the program enters its effect
EntryMode ==
  CHOOSE m \in EntryModes :
    \/ prog \in AsResultPrograms(m)
    \/ \E r \in ReifyResults : prog \in FromResultPrograms(m, r)
    \/ m = "direct"
       /\ \A n \in EntryModes :
            /\ prog \notin AsResultPrograms(n)
            /\ \A r \in ReifyResults : prog \notin FromResultPrograms(n, r)
\* on entry the environment is interruptible and its signal aborted
EntryAborted ==
  /\ EntryMode = "after"
  /\ \E a \in Aborts : \E i \in Evals("region") : a < i
\* what the self of the case delivers when nothing aborts it
SelfResult(c) ==
  CASE c.outcome = "Ok" -> Right(Val(0))
    [] c.outcome = "Expected" -> Left(FailureExpected(Val(1)))
    [] c.outcome = "Unexpected" -> Left(FailureUnexpected(Val(2)))
    [] c.outcome = "Aborted" -> ResultAborted
\* the owner aborted the handle before it had a result
AbortedBeforeEmit == \E a \in Aborts : \A e \in Emits : a < e

\* C26, as claimed: asResult(self) never delivers Err, whatever the
\* environment it is entered in: it delivers Ok(r), r being the result of
\* self (the one self was made to deliver, or Err(Aborted) when the owner
\* aborted a self that sleeps), and it always delivers
C26_asResult_never_Err ==
  \A c \in CatchCases :
    prog \in { Entry(m, asResult(CatchSelf(c))) : m \in EntryModes } =>
      /\ \A e \in Emits :
           /\ log[e].r.tag = "Right"
           /\ log[e].r.right \in {SelfResult(c), ResultAborted}
           /\ log[e].r.right # SelfResult(c) => (c.mode = "delayed" /\ AbortedBeforeEmit)
      /\ Quiescent => Emits # {}

\* C26, amended: the same unless asResult(self) is entered in an interruptible
\* environment whose signal is already aborted: it then delivers Err(Aborted)
C26_asResult_Ok_unless_preflight ==
  \A c \in CatchCases :
    prog \in { Entry(m, asResult(CatchSelf(c))) : m \in EntryModes } =>
      /\ \A e \in Emits :
           IF EntryAborted THEN log[e].r = ResultAborted
           ELSE /\ log[e].r.tag = "Right"
                /\ log[e].r.right \in {SelfResult(c), ResultAborted}
                /\ log[e].r.right # SelfResult(c)
                     => (c.mode = "delayed" /\ AbortedBeforeEmit)
      /\ Quiescent => Emits # {}

\* asResult(delay(die(2), 1)) entered inside an uninterruptible region whose
\* handle the owner aborted has delivered Ok(Err(Unexpected(2)))
C26_witness ==
  /\ prog = Entry("shielded", asResult(delay(die(Val(2)), 1)))
  /\ Aborts # {} /\ Quiescent
  /\ handles[1].result = Right(Left(FailureUnexpected(Val(2))))

\* what e delivers by itself when the owner may abort: a sleeping e that is
\* not uninterruptible delivers Err(Aborted) once aborted
AloneResult(c) ==
  IF c.mode = "delayed" /\ AbortedBeforeEmit THEN ResultAborted ELSE SelfResult(c)

\* C27, as claimed: in every environment asResult(fromResult(r)) delivers what
\* succeed(r) delivers (Ok(r), or Err(Aborted) from the checkpoint of both);
\* and flatMap(asResult(e), fromResult) delivers what e delivers
C27_round_trip_as_claimed ==
  /\ \A r \in ReifyResults :
       prog \in FromResultPrograms(EntryMode, r) =>
         \A e \in Emits :
           log[e].r = IF EntryAborted THEN ResultAborted ELSE Right(r)
  /\ \A c \in CatchCases :
       prog \in RoundTripPrograms(c) =>
         /\ \A e \in Emits : log[e].r = AloneResult(c)
         /\ Quiescent => Emits # {}

\* C27, amended: the same, but fromResult is a cancellation checkpoint: when
\* the owner aborted the handle while an uninterruptible e was running,
\* flatMap(asResult(e), fromResult) delivers Err(Aborted) where e alone
\* delivers its result
C27_round_trip ==
  /\ \A r \in ReifyResults :
       prog \in FromResultPrograms(EntryMode, r) =>
         \A e \in Emits :
           log[e].r = IF EntryAborted THEN ResultAborted ELSE Right(r)
  /\ \A c \in CatchCases :
       /\ prog = CatchSelf(c) =>
            /\ \A e \in Emits : log[e].r = AloneResult(c)
            /\ Quiescent => Emits # {}
       /\ prog = RoundTrip(CatchSelf(c)) =>
            /\ \A e \in Emits :
                 log[e].r = IF c.mode = "shielded" /\ AbortedBeforeEmit
                              THEN ResultAborted ELSE AloneResult(c)
            /\ Quiescent => Emits # {}

\* flatMap(asResult(delay(fail(1), 1)), fromResult), not aborted, has
\* delivered Err(Expected(1))
C27_witness ==
  /\ Quiescent /\ aborts = 0
  /\ prog = RoundTrip(delay(fail(Val(1)), 1))
  /\ handles[1].result = Left(FailureExpected(Val(1)))

----------------------------------------------------------------------------
\* fork and forkDaemon: flatMap(fork(child), (handle) => ...) run by runFork.
\* The child is sync(() => 1), at once or delayed; the parent notes the handle
\* it is given, sleeps or not and then may call handle.unsafeAbort(); the
\* owner of the root handle may abort between two turns

ForkChild(ms) ==
  LET self == sync(Note("self", Void, Val(1))) IN
  IF ms = 0 THEN self ELSE delay(self, ms)
ForkParent(p) == [fn |-> "forkParent", ms |-> p.ms, abort |-> p.abort]

ForkPrograms ==
  UNION { { flatMap(fork(ForkChild(ms)), ForkParent(p)),
            flatMap(forkDaemon(ForkChild(ms)), ForkParent(p)) } :
          ms \in 0..MaxDelay, p \in [ms : 0..MaxDelay, abort : BOOLEAN] }

InitFork == \E effect \in ForkPrograms : InitWith(effect)
NextFork ==
  \/ make \/ unsafeMakeNoAbort \/ try_end
  \/ run_succeed \/ run_failWith \/ run_sync \/ run_flatMap \/ flatMap_onResult
  \/ run_andThen \/ andThen_onResult
  \/ run_async \/ async_onAbort \/ async_resume
  \/ AbortController_abort \/ dispatchEvent \/ setTimeout_fire
  \/ HandleImpl_emit \/ HandleImpl_emit_clear
  \/ HandleImpl_unsafeAbort \/ owner_unsafeAbort
  \/ run_uninterruptible \/ run_fork \/ run_forkDaemon \/ queueMicrotask_run
  \/ signal_removeEventListener \/ handle_unsafeAbort_evaluate
SpecFork == InitFork /\ [][NextFork]_vars

IsDaemon == prog.self.op = "forkDaemon"
\* the program calls unsafeAbort of the handle it was given
AbortsChild == prog.f.abort
\* the moments at which the signal of the parent is aborted: unsafeAbort of
\* the root handle by its owner, and the emission of the root handle
ParentAborts ==
  { i \in Events : log[i].ev \in {"unsafeAbort", "emit"} /\ log[i].h = 1 }
\* the calls of unsafeAbort of the forked handle by the program
ChildAborts == { i \in Aborts : log[i].h = 2 }
\* the forked handle exists
HasForked == Len(handles) >= 2

\* C28: fork(self): the handle listens to the signal of the parent and has a
\* controller of its own.  Between two turns, if the signal of the parent is
\* aborted the controller of the handle is aborted; if the signal was aborted
\* before the handle emitted (and self has been started), the result of the
\* handle is Err(Aborted); without that it is Ok(1).  Once the handle has
\* emitted, its listener is off the signal of the parent, unsafeAbort of the
\* handle is no longer called, and the result stays what the emission carried
C28_fork_parent_abort ==
  (~IsDaemon /\ ~AbortsChild /\ HasForked) =>
    /\ ~handles[2].isRoot /\ handles[2].parentSignal = 1
    /\ handles[2].controller # 1
    /\ (Idle /\ ctrls[1].aborted) => ctrls[handles[2].controller].aborted
    /\ (Idle /\ microtasks = <<>>
          /\ \E q \in ParentAborts : \A e \in ForkedEmits : q < e)
         => handles[2].result = ResultAborted
    /\ Cardinality(ForkedEmits) <= 1
    /\ \A e \in ForkedEmits :
         /\ handles[2].result = log[e].r
         /\ (\A q \in ParentAborts : q > e) => log[e].r = Right(Val(1))
         /\ Idle => ~Has(ctrls[1].listeners, unsafeAbortL(2))
    /\ (Running("unsafeAbort") /\ Top.h = 2) => handles[2].result = undefined
    /\ Quiescent => ForkedEmits # {}

\* the owner aborted the root handle while the forked child was sleeping:
\* the controller of the forked handle is aborted and its result Err(Aborted)
C28_witness ==
  /\ ~IsDaemon /\ ~AbortsChild /\ HasForked /\ Quiescent
  /\ \E a \in Aborts : \E g \in Evals("got") : \E e \in ForkedEmits :
       log[a].h = 1 /\ g < a /\ a < e
  /\ ctrls[handles[2].controller].aborted
  /\ handles[2].result = ResultAborted

\* C29: fork(self) calls its continuation with Ok(handle) in the turn in
\* which fork is run (when that turn is over the continuation has the
\* handle), and when the continuation receives the handle self has not run
\* any step and the handle has no result
C29_fork_delivers_synchronously ==
  ~IsDaemon =>
    /\ (Idle /\ HasForked /\ aborts = 0) => Evals("got") # {}
    /\ \A g \in Evals("got") :
         /\ \A i \in Evals("self") : g < i
         /\ \A e \in ForkedEmits : g < e

\* C30: forkDaemon(self): the handle is a root (isRoot, its parentSignal is
\* the signal of its own controller), and no signal has a listener that
\* aborts it; its controller is aborted only once the program has called
\* unsafeAbort of the handle or the handle has emitted; whatever the owner
\* does to the root handle and whenever the parent ends, the handle's result
\* is Ok(1), unless the program called unsafeAbort of the handle before,
\* and then it is Err(Aborted); and the handle always gets a result
C30_forkDaemon_no_parent_linkage ==
  (IsDaemon /\ HasForked) =>
    /\ handles[2].isRoot
    /\ handles[2].controller # 1 /\ handles[2].parentSignal = handles[2].controller
    /\ \A c \in DOMAIN ctrls : ~Has(ctrls[c].listeners, unsafeAbortL(2))
    /\ ctrls[handles[2].controller].aborted => (ChildAborts # {} \/ ForkedEmits # {})
    /\ \A e \in ForkedEmits :
         log[e].r = IF \E a \in ChildAborts : a < e THEN ResultAborted
                    ELSE Right(Val(1))
    /\ Quiescent => ForkedEmits # {}

\* the owner aborted the root handle while the daemon child was sleeping, and
\* the child has run since and its handle has Ok(1)
C30_witness ==
  /\ IsDaemon /\ HasForked /\ Quiescent
  /\ \E a \in Aborts : \E i \in Evals("self") : log[a].h = 1 /\ a < i
  /\ handles[1].result = ResultAborted
  /\ handles[2].result = Right(Val(1))

----------------------------------------------------------------------------
\* async with a register of the user: it calls resume(succeed(1)),
\* resume(succeed(2)), ... at once, sets timers whose callbacks call resume
\* with further values, and returns a cleanup effect or nothing; the cleanup
\* does not clear the timers, so that their callbacks call resume after an abort

\* the cleanup effect: none, sync(...), or one that sleeps before it ends
Cleanup(kind) ==
  CASE kind = "none" -> undefined
    [] kind = "sync" -> sync(Note("cleanup", Void, Void))
    [] kind = "async" -> andThen(sync(Note("cleanup", Void, Void)),
                                 andThen(sleep(1), sync(Note("cleaned", Void, Void))))

\* a call of the user that records itself and calls resume(effect)
CallbackF(id, effect) == [pc |-> "callback", id |-> id, effect |-> effect]

\* async: register(resume, signal) is called; the timers it sets have ids of
\* their own (negative, those of sleep being positive)
run_async_register ==
  /\ Body("async")
  /\ Top.e.register.reg = "resumes"
  /\ LET id == Len(asyncs) + 1
         signal == EnvGet(Top.env, "currentAbortSignal")
         register == Top.e.register
     IN /\ asyncs' = Append(asyncs, [resumed |-> FALSE, signal |-> signal,
                                     env |-> Top.env, k |-> Top.k,
                                     cleanup |-> Cleanup(register.cleanup)])
        /\ timers' = timers \o
             [j \in 1..Len(register.later) |->
                [id |-> 0 - j, due |-> now + register.later[j], async |-> id,
                 effect |-> succeed(Val(10 + j))]]
        /\ stack' = [j \in 1..register.atOnce |-> CallbackF(id, succeed(Val(j)))]
                     \o <<[pc |-> "async_listen", id |-> id]>> \o Rest
  /\ UNCHANGED <<prog, ctrls, races, fes, gens, handles, scopes, microtasks, now,
                 aborts, log>>

\* () => { calls.push(effect); resume(effect) }
register_callback ==
  /\ Running("callback")
  /\ log' = Append(log, [ev |-> "resume", id |-> Top.id, effect |-> Top.effect])
  /\ stack' = <<ResumeF(Top.id, Top.effect)>> \o Rest
  /\ UNCHANGED <<prog, ctrls, asyncs, races, fes, gens, handles, scopes, timers,
                 microtasks, now, aborts>>

----------------------------------------------------------------------------
\* handle.await, handle.join, handle.abort

\* the async of await and join: register adds an observer to the handle and
\* returns sync(() => this.removeObserver(observer)); then, unless resumed,
\* the abort listener is added
run_async_observer ==
  /\ Body("async")
  /\ Top.e.register.reg \in {"await", "join"}
  /\ LET id == Len(asyncs) + 1
         signal == EnvGet(Top.env, "currentAbortSignal")
         observer == [pc |-> IF Top.e.register.reg = "await" THEN "await_observer"
                             ELSE "join_observer", id |-> id]
     IN /\ asyncs' = Append(asyncs,
             [resumed |-> FALSE, signal |-> signal, env |-> Top.env, k |-> Top.k,
              cleanup |-> sync([th |-> "removeObserver", h |-> Top.e.register.h,
                                observer |-> observer])])
        /\ stack' = <<[pc |-> "addObserver", h |-> Top.e.register.h,
                       observer |-> observer],
                      [pc |-> "async_listen", id |-> id]>> \o Rest
  /\ UNCHANGED <<prog, ctrls, races, fes, gens, handles, scopes, timers, microtasks,
                 now, aborts, log>>

\* if (resumed) return; signal.addEventListener("abort", onAbort)
async_listen ==
  /\ Running("async_listen")
  /\ IF asyncs[Top.id].resumed
       THEN Goto(<<>>)
       ELSE /\ ctrls' = addEventListener(ctrls, asyncs[Top.id].signal,
                                         async_onAbortL(Top.id))
            /\ stack' = Rest
            /\ UNCHANGED <<prog, asyncs, races, fes, gens, handles, scopes, timers,
                           microtasks, now, aborts, log>>

\* function observer(result) of await: resume(succeed(result))
HandleImpl_await_observer ==
  Running("await_observer") /\ Goto(<<ResumeF(Top.id, succeed(Top.r))>>)

\* function observer(result) of join: resume(fromResult(result))
HandleImpl_join_observer ==
  Running("join_observer") /\ Goto(<<ResumeF(Top.id, fromResult(Top.r))>>)

\* a cleanup that leaves the observer in the handle
HandleImpl_removeObserver_evaluate_kept ==
  /\ Body("sync") /\ Top.e.evaluate.th = "removeObserver"
  /\ stack' = <<CallF(Top.k, Right(Void))>> \o Rest
  /\ UNCHANGED <<prog, ctrls, asyncs, races, fes, gens, handles, scopes, timers,
                 microtasks, now, aborts, log>>

\* sync(() => { this.removeObserver(observer) })
HandleImpl_removeObserver_evaluate ==
  /\ Body("sync") /\ Top.e.evaluate.th = "removeObserver"
  /\ handles' = [handles EXCEPT ![Top.e.evaluate.h].observers =
                                   Without(@, Top.e.evaluate.observer)]
  /\ stack' = <<CallF(Top.k, Right(Void))>> \o Rest
  /\ UNCHANGED <<prog, ctrls, asyncs, races, fes, gens, scopes, timers, microtasks,
                 now, aborts, log>>

\* the suspend of await
HandleImpl_await_evaluate ==
  /\ Body("suspend") /\ Top.e.evaluate.th = "await"
  /\ LET self == handles[Top.e.evaluate.h] IN
     stack' = <<RunF(IF self.result # undefined THEN succeed(self.result)
                     ELSE async([reg |-> "await", h |-> Top.e.evaluate.h]),
                     Top.env, Top.k)>> \o Rest
  /\ log' = Append(log, [ev |-> "await", h |-> Top.e.evaluate.h])
  /\ UNCHANGED <<prog, ctrls, asyncs, races, fes, gens, handles, scopes, timers,
                 microtasks, now, aborts>>

\* the suspend of join
HandleImpl_join_evaluate ==
  /\ Body("suspend") /\ Top.e.evaluate.th = "join"
  /\ LET self == handles[Top.e.evaluate.h] IN
     stack' = <<RunF(IF self.result # undefined THEN fromResult(self.result)
                     ELSE async([reg |-> "join", h |-> Top.e.evaluate.h]),
                     Top.env, Top.k)>> \o Rest
  /\ log' = Append(log, [ev |-> "join", h |-> Top.e.evaluate.h])
  /\ UNCHANGED <<prog, ctrls, asyncs, races, fes, gens, handles, scopes, timers,
                 microtasks, now, aborts>>

\* an abort that does not wait for the handle
HandleImpl_abort_evaluate_unawaited ==
  /\ Body("suspend") /\ Top.e.evaluate.th = "abort"
  /\ log' = Append(log, [ev |-> "unsafeAbort", h |-> Top.e.evaluate.h])
  /\ stack' = <<unsafeAbortL(Top.e.evaluate.h), RunF(void_, Top.env, Top.k)>> \o Rest
  /\ UNCHANGED <<prog, ctrls, asyncs, races, fes, gens, handles, scopes, timers,
                 microtasks, now, aborts>>

\* the suspend of abort: this.unsafeAbort(), then asVoid(this.await) is run
HandleImpl_abort_evaluate ==
  /\ Body("suspend") /\ Top.e.evaluate.th = "abort"
  /\ log' = Append(log, [ev |-> "unsafeAbort", h |-> Top.e.evaluate.h])
  /\ stack' = <<unsafeAbortL(Top.e.evaluate.h),
                RunF(asVoid(HandleImpl_await(Top.e.evaluate.h)), Top.env, Top.k)>>
               \o Rest
  /\ UNCHANGED <<prog, ctrls, asyncs, races, fes, gens, handles, scopes, timers,
                 microtasks, now, aborts>>

----------------------------------------------------------------------------
\* A handle awaited, joined or aborted by the program that forked it:
\* flatMap(fork(child), (handle) => ...) or the same with forkDaemon, run by
\* runFork.  The child succeeds with 1 or fails with 3, at once or delayed,
\* interruptible or not; the parent sleeps or not, runs handle.await,
\* handle.join or handle.abort, and notes the result of that (onResult); the
\* owner of the root handle may abort between two turns

AwaitChild(c) ==
  LET self == IF c.ok THEN succeed(Val(1)) ELSE fail(Val(3))
      timed == IF c.ms = 0 THEN self ELSE delay(self, c.ms)
  IN IF c.shielded THEN uninterruptible(timed) ELSE timed
AwaitParent(p) == [fn |-> "awaitParent", ms |-> p.ms, mode |-> p.mode]

AwaitPrograms ==
  UNION { { flatMap(fork(AwaitChild(c)), AwaitParent(p)),
            flatMap(forkDaemon(AwaitChild(c)), AwaitParent(p)) } :
          c \in [ok : BOOLEAN, ms : 0..MaxDelay, shielded : BOOLEAN],
          p \in [ms : 0..MaxDelay, mode : {"abort", "await", "join"}] }

InitAwait == \E effect \in AwaitPrograms : InitWith(effect)
NextAwait ==
  \/ make \/ unsafeMakeNoAbort \/ try_end
  \/ run_succeed \/ run_fail \/ run_failWith \/ run_fromResult \/ run_sync
  \/ run_flatMap \/ flatMap_onResult \/ run_andThen \/ andThen_onResult
  \/ run_map \/ map_onResult \/ run_asResult \/ asResult_onResult
  \/ run_async \/ async_onAbort \/ async_resume
  \/ AbortController_abort \/ dispatchEvent \/ setTimeout_fire
  \/ HandleImpl_emit \/ HandleImpl_emit_clear
  \/ HandleImpl_unsafeAbort \/ owner_unsafeAbort
  \/ run_uninterruptible \/ run_uninterruptibleMask \/ run_interruptible
  \/ run_fork \/ run_forkDaemon \/ queueMicrotask_run
  \/ signal_removeEventListener \/ HandleImpl_addObserver
  \/ run_async_observer \/ async_listen
  \/ HandleImpl_await_observer \/ HandleImpl_join_observer
  \/ HandleImpl_removeObserver_evaluate
  \/ HandleImpl_await_evaluate \/ HandleImpl_join_evaluate
  \/ HandleImpl_abort_evaluate
SpecAwait == InitAwait /\ [][NextAwait]_vars

\* what the parent does with the handle, and the results of that, which it
\* notes in an uninterruptible region (onResult)
AwaitMode == prog.f.mode
Afters == Evals("after")

\* C31: handle.abort calls unsafeAbort of the handle, so that between two
\* turns the controller of the handle is aborted; it delivers Ok(void) or, its
\* own signal aborted, Err(Aborted), and Ok(void) only after the handle has
\* emitted; run when the handle has its result, it leaves that result as it is
\* and has delivered Ok(void) when the turn is over
C31_handle_abort ==
  (AwaitMode = "abort" /\ HasForked) =>
    /\ \A i \in Afters :
         /\ log[i].arg \in {Right(Void), ResultAborted}
         /\ log[i].arg = Right(Void) =>
              /\ \E e \in ForkedEmits : e < i
              /\ \E a \in ChildAborts : a < i
    /\ \A a \in ChildAborts :
         /\ Idle => ctrls[handles[2].controller].aborted
         /\ \A e \in ForkedEmits :
              e < a => /\ handles[2].result = log[e].r
                       /\ Idle => \E i \in Afters : i > a /\ log[i].arg = Right(Void)

\* handle.abort was run while the uninterruptible child was sleeping, and it
\* delivered Ok(void) after the child had ended with its own result
C31_witness ==
  /\ AwaitMode = "abort" /\ HasForked /\ Quiescent /\ aborts = 0
  /\ prog.self.self.op = "uninterruptible"
  /\ \E a \in ChildAborts : \E e \in ForkedEmits : \E i \in Afters :
       a < e /\ e < i /\ log[e].r = Right(Val(1)) /\ log[i].arg = Right(Void)

\* the runs of handle.await or handle.join by the parent, the calls of
\* unsafeAbort of the root handle by its owner, and what await or join
\* delivers for a result r of the handle
Awaits == { i \in Events : log[i].ev \in {"await", "join"} /\ log[i].h = 2 }
OwnerAborts == { i \in Aborts : log[i].h = 1 }
Delivery(r) == IF AwaitMode = "await" THEN Right(r) ELSE r
\* the result the child ends with if nothing aborts it
AwaitChildResult ==
  LET self == IF prog.self.self.op = "uninterruptible" THEN prog.self.self.self
              ELSE prog.self.self
      last == IF self.op = "andThen" THEN self.f ELSE self
  IN IF last.op = "succeed" THEN Right(Val(1)) ELSE Left(FailureExpected(Val(3)))

----------------------------------------------------------------------------
\* async(register) run by runFork, its result noted in an uninterruptible
\* region: onResult(async(register), note).  The register calls resume up to
\* twice at once and from up to two timers, and returns a cleanup or none; the
\* owner of the root handle may abort between two turns

MaxResumes == 2

AsyncPrograms ==
  { onResult(async([reg |-> "resumes", atOnce |-> n, later |-> ds, cleanup |-> c]),
             noteArg("after")) :
      n \in 0..MaxResumes,
      ds \in UNION { [1..m -> 1..MaxDelay] : m \in 0..MaxResumes },
      c \in {"none", "sync", "async"} }

InitAsync == \E effect \in AsyncPrograms : InitWith(effect)
NextAsync ==
  \/ make \/ unsafeMakeNoAbort \/ try_end
  \/ run_succeed \/ run_failWith \/ run_fromResult \/ run_sync
  \/ run_flatMap \/ flatMap_onResult \/ run_andThen \/ andThen_onResult
  \/ run_asResult \/ asResult_onResult
  \/ run_async \/ async_onAbort \/ async_resume
  \/ run_async_register \/ register_callback \/ async_listen
  \/ AbortController_abort \/ dispatchEvent \/ setTimeout_fire
  \/ HandleImpl_emit \/ HandleImpl_emit_clear
  \/ HandleImpl_unsafeAbort \/ owner_unsafeAbort
  \/ run_uninterruptible \/ run_uninterruptibleMask \/ run_interruptible
SpecAsync == InitAsync /\ [][NextAsync]_vars

\* the register of the program, the calls of resume, and the first of the
\* calls of resume and of the aborts of the owner (0: there is none yet)
Register == prog.f.self.register
Resumes == { i \in Events : log[i].ev = "resume" }
FirstOf(S) == IF S = {} THEN 0 ELSE CHOOSE i \in S : \A j \in S : i <= j
FirstSettle == FirstOf(Resumes \cup Aborts)

\* C32: the continuation of async(register) is called at most once, and
\* once when nothing is left to run if resume was ever called or the owner
\* aborted.  What it receives is decided by the first of the calls of resume
\* and the abort: Ok of the value of the first call of resume if that came
\* first, and then the cleanup never runs; Err(Aborted) if the abort came
\* first, and then the cleanup effect, if register returned one, has run to
\* its end before, although the signal is aborted
C32_async_single_result ==
  /\ Cardinality(Afters) <= 1
  /\ (Quiescent /\ FirstSettle # 0) => Cardinality(Afters) = 1
  /\ \A i \in Afters :
       /\ FirstSettle # 0 /\ FirstSettle < i
       /\ log[FirstSettle].ev = "resume" =>
            /\ log[i].arg = Right(log[FirstSettle].effect.a)
            /\ Evals("cleanup") = {}
       /\ log[FirstSettle].ev = "unsafeAbort" =>
            /\ log[i].arg = ResultAborted
            /\ Register.cleanup # "none" =>
                 \E c \in Evals("cleanup") : FirstSettle < c /\ c < i
            /\ Register.cleanup = "async" =>
                 \E c \in Evals("cleaned") : FirstSettle < c /\ c < i
  /\ (FirstSettle # 0 /\ log[FirstSettle].ev = "resume") => Evals("cleanup") = {}

\* the owner aborted before the first timer of the register; its cleanup
\* slept, both timers called resume meanwhile or afterwards, and the
\* continuation received Err(Aborted), once
C32_witness ==
  /\ Quiescent /\ Register.cleanup = "async" /\ Register.atOnce = 0
  /\ Cardinality(Resumes) = 2 /\ Aborts # {} /\ FirstSettle \in Aborts
  /\ \E r \in Resumes : \E c \in Evals("cleaned") : r < c
  /\ \E i \in Afters : log[i].arg = ResultAborted

----------------------------------------------------------------------------
\* One scope and a sequence of calls of addFinalizer (of finalizer 1 or 2)
\* and close (with one of two results) on it, each call run in a handle of
\* its own so that the next call is made whether or not it delivers

MaxCalls == 4

ScopeCalls ==
  { [op |-> "add", n |-> 1], [op |-> "add", n |-> 2],
    [op |-> "close", r |-> Right(Val(0))],
    [op |-> "close", r |-> Left(FailureExpected(Val(9)))] }

ScopeCallsPrograms ==
  { flatMap(makeScope, [fn |-> "scopeCalls", calls |-> calls]) :
      calls \in UNION { [1..n -> ScopeCalls] : n \in 1..MaxCalls } }

InitScopeCalls == \E effect \in ScopeCallsPrograms : InitWith(effect)
NextScopeCalls ==
  \/ make \/ try_end
  \/ run_succeed \/ run_fromResult \/ run_sync
  \/ run_flatMap \/ flatMap_onResult \/ run_andThen \/ andThen_onResult
  \/ run_map \/ map_onResult \/ run_asResult \/ asResult_onResult
  \/ AbortController_abort \/ dispatchEvent
  \/ HandleImpl_emit \/ HandleImpl_emit_clear
  \/ run_forkDaemon \/ queueMicrotask_run
  \/ makeScope_evaluate \/ ScopeImpl_addFinalizer_evaluate \/ ScopeImpl_close_evaluate
  \/ run_forEach \/ run_forEachSequential \/ forEachSequential_tick
  \/ forEachSequential_while \/ forEachSequential_after
  \/ forEachSequential_tick_end \/ forEachSequential_cb \/ forEachSequential_cb_end
SpecScopeCalls == InitScopeCalls /\ [][NextScopeCalls]_vars

\* the calls of the program; the first close among them (0: none); the
\* finalizers added before it
CallsMade == prog.f.calls
FirstClose ==
  IF \A j \in DOMAIN CallsMade : CallsMade[j].op # "close" THEN 0
  ELSE CHOOSE j \in DOMAIN CallsMade :
         /\ CallsMade[j].op = "close"
         /\ \A k \in 1..(j - 1) : CallsMade[k].op # "close"
AddedOpen ==
  { CallsMade[j].n : j \in { k \in DOMAIN CallsMade :
      CallsMade[k].op = "add" /\ (FirstClose = 0 \/ k < FirstClose) } }
\* the runs of finalizers that call number j made: those noted after its
\* start and before the start of the next call
CallOf(i) == Cardinality({ k \in Evals("call") : k <= i })
FinalizerRuns(j) == { i \in Evals("finalizer") : CallOf(i) = j }
\* call number j has been made and its turn is over
CallOver(j) ==
  \/ Cardinality(Evals("call")) > j
  \/ Cardinality(Evals("call")) = j /\ Idle

\* C33: the first close runs every finalizer added before it once, a
\* finalizer added twice too, and each with the result of that close; the
\* scope is Closed with that result from then on, whatever later calls of
\* close carry; a later close and an addFinalizer before the first close run
\* no finalizer; an addFinalizer after the first close runs its finalizer
\* once, in its own turn, with the result of the first close
C33_addFinalizer_close_sequences ==
  scopes # <<>> =>
    /\ scopes[1].tag = "Closed" =>
         FirstClose # 0 /\ scopes[1].result = CallsMade[FirstClose].r
    /\ (FirstClose # 0 /\ CallOver(FirstClose)) => scopes[1].tag = "Closed"
    /\ \A j \in DOMAIN CallsMade :
         LET runs == FinalizerRuns(j) IN
         IF j = FirstClose
           THEN /\ \A i \in runs : /\ log[i].arg.n \in AddedOpen
                                   /\ log[i].arg.result = CallsMade[j].r
                /\ \A n \in AddedOpen :
                     LET of == { i \in runs : log[i].arg.n = n } IN
                     /\ Cardinality(of) <= 1
                     /\ CallOver(j) => Cardinality(of) = 1
         ELSE IF CallsMade[j].op = "add" /\ FirstClose # 0 /\ j > FirstClose
           THEN /\ Cardinality(runs) <= 1
                /\ CallOver(j) => Cardinality(runs) = 1
                /\ \A i \in runs :
                     log[i].arg = [n |-> CallsMade[j].n,
                                   result |-> CallsMade[FirstClose].r]
           ELSE runs = {}

\* finalizer 1 was added, the scope closed with Ok(0), closed again with
\* Err(9), and finalizer 1 added again: it ran twice, with Ok(0) both times
C33_witness ==
  /\ Quiescent /\ Len(CallsMade) = 4
  /\ CallsMade[1] = [op |-> "add", n |-> 1]
  /\ CallsMade[2] = [op |-> "close", r |-> Right(Val(0))]
  /\ CallsMade[3] = [op |-> "close", r |-> Left(FailureExpected(Val(9)))]
  /\ CallsMade[4] = [op |-> "add", n |-> 1]
  /\ Cardinality(Evals("call")) = 4
  /\ Cardinality(FinalizerRuns(2)) = 1 /\ Cardinality(FinalizerRuns(4)) = 1
  /\ \A i \in Evals("finalizer") : log[i].arg = [n |-> 1, result |-> Right(Val(0))]
  /\ scopes[1].result = Right(Val(0))

----------------------------------------------------------------------------
\* A scope and the scopes forked from it: a sequence of steps, each of which
\* forks the scope, adds a finalizer that sleeps to the scope forked last,
\* closes the scope forked last, or closes the scope itself

MaxSteps == 4

ScopeSteps == {"fork", "add", "closeForked", "close"}

ScopeForkPrograms ==
  { flatMap(makeScope, [fn |-> "scopeSteps", steps |-> steps]) :
      steps \in { t \in UNION { [1..n -> ScopeSteps] : n \in 1..MaxSteps } :
                   \A j \in DOMAIN t :
                     t[j] \in {"add", "closeForked"}
                       => \E k \in 1..(j - 1) : t[k] = "fork" } }

InitScopeFork == \E effect \in ScopeForkPrograms : InitWith(effect)
NextScopeFork ==
  \/ make \/ try_end
  \/ run_succeed \/ run_fromResult \/ run_sync
  \/ run_flatMap \/ flatMap_onResult \/ run_andThen \/ andThen_onResult
  \/ run_map \/ map_onResult \/ run_asResult \/ asResult_onResult
  \/ run_async \/ async_resume \/ setTimeout_fire
  \/ AbortController_abort \/ dispatchEvent
  \/ HandleImpl_emit \/ HandleImpl_emit_clear
  \/ run_forkDaemon \/ queueMicrotask_run
  \/ makeScope_evaluate \/ ScopeImpl_addFinalizer_evaluate \/ ScopeImpl_close_evaluate
  \/ ScopeImpl_fork_evaluate \/ ScopeImpl_unsafeRemoveFinalizer_evaluate
  \/ run_forEach \/ run_forEachSequential \/ forEachSequential_tick
  \/ forEachSequential_while \/ forEachSequential_after
  \/ forEachSequential_tick_end \/ forEachSequential_cb \/ forEachSequential_cb_end
SpecScopeFork == InitScopeFork /\ [][NextScopeFork]_vars

\* the steps of the program; the forked scopes there are; the scope a step
\* is about if it is about a forked one (the one forked last before it)
StepsMade == prog.f.steps
ForkedScopes == 2..Len(scopes)
ForkedBefore(j) == 1 + Cardinality({ k \in 1..(j - 1) : StepsMade[k] = "fork" })
\* the first close of the scope itself among the steps (0: none)
OwnClose ==
  IF \A j \in DOMAIN StepsMade : StepsMade[j] # "close" THEN 0
  ELSE CHOOSE j \in DOMAIN StepsMade :
         StepsMade[j] = "close" /\ \A k \in 1..(j - 1) : StepsMade[k] # "close"
\* the forked scope c is forked after the first close of the scope itself
ForkedFromClosed(c) ==
  OwnClose # 0 /\ \E j \in DOMAIN StepsMade :
    StepsMade[j] = "fork" /\ ForkedBefore(j) + 1 = c /\ j > OwnClose
\* a step closes the forked scope c before the scope itself is closed
ClosedFirst(c) ==
  \E j \in DOMAIN StepsMade :
    /\ StepsMade[j] = "closeForked" /\ ForkedBefore(j) = c
    /\ OwnClose = 0 \/ j < OwnClose
\* the scope has the finalizer that closes the forked scope c
HasFin(c) == Has(scopes[1].finalizers, ScopeImpl_fork_fin(c))

\* a scope forked from a Closed scope is Closed with its result, and when
\* nothing is left to run after the close of the scope every forked scope is
\* Closed: with the result of the scope, or its own if it was closed first
ForkedFollow ==
  /\ \A c \in ForkedScopes :
       ForkedFromClosed(c) => /\ scopes[c].tag = "Closed"
                              /\ scopes[c].result = Right(Val(0))
  /\ (Quiescent /\ scopes # <<>> /\ scopes[1].tag = "Closed") =>
       \A c \in ForkedScopes :
         /\ scopes[c].tag = "Closed"
         /\ scopes[c].result = IF ClosedFirst(c) THEN Left(FailureExpected(Val(8)))
                                ELSE Right(Val(0))

\* C35 as claimed: ForkedFollow, and between two turns the scope never has
\* the finalizer of a forked scope that is Closed
C35_fork_as_claimed ==
  /\ ForkedFollow
  /\ \A c \in ForkedScopes :
       (Idle /\ microtasks = <<>> /\ scopes[c].tag = "Closed") => ~HasFin(c)

\* C35: ForkedFollow, and the scope has the finalizer of a Closed forked
\* scope only while the close of that scope runs: between two turns only if
\* a finalizer of the forked scope has been started and a timer is pending,
\* and never when nothing is left to run
C35_fork_follows_parent ==
  /\ ForkedFollow
  /\ \A c \in ForkedScopes :
       (Idle /\ microtasks = <<>> /\ scopes[c].tag = "Closed" /\ HasFin(c)) =>
         /\ timers # <<>>
         /\ \E i \in Evals("finalizer") : log[i].arg.n = c

\* a scope was forked, given a finalizer that sleeps and closed; the scope
\* was then forked again: it has the finalizer of the second forked scope,
\* which is Open, and no longer that of the first, which is Closed
C35_witness ==
  /\ Quiescent /\ StepsMade = <<"fork", "add", "closeForked", "fork">>
  /\ Len(scopes) = 3
  /\ scopes[1].tag = "Open" /\ scopes[1].finalizers = <<ScopeImpl_fork_fin(3)>>
  /\ scopes[2].tag = "Closed" /\ scopes[2].result = Left(FailureExpected(Val(8)))
  /\ scopes[3].tag = "Open"
  /\ \E i \in Evals("finalizer") : log[i].arg.n = 2

----------------------------------------------------------------------------
\* The listeners a combinator leaves on the signal it is run under: raceAll,
\* raceAllFirst and forEach with unbounded concurrency over children that
\* succeed or fail, at once or delayed, fork of such a child followed by await
\* of its handle, and such a child alone (a delayed one is an async); the
\* program notes the result of the combinator and then sleeps, so that the
\* signal, that of the root handle, outlives the combinator

MaxRacers == 2

ListenerChild(c) ==
  LET self == IF c.ok THEN succeed(Val(c.ms)) ELSE fail(Val(c.ms)) IN
  IF c.ms = 0 THEN self ELSE delay(self, c.ms)

ListenerSubjects ==
  LET one == { ListenerChild(c) : c \in [ok : BOOLEAN, ms : 0..MaxDelay] }
      many == UNION { [1..n -> one] : n \in 1..MaxRacers }
  IN { raceAll(all) : all \in many } \cup { raceAllFirst(all) : all \in many }
     \cup { forEach([i \in DOMAIN all |-> Item(i - 1, all[i])], perform,
                     [concurrency |-> Unbounded, discard |-> FALSE]) : all \in many }
     \cup { flatMap(fork(self), [fn |-> "await"]) : self \in one }
     \cup one

ListenerPrograms ==
  { andThen(flatMap(asResult(subject), noteArg("after")), sleep(MaxDelay)) :
      subject \in ListenerSubjects }

InitListener == \E effect \in ListenerPrograms : InitWith(effect)
NextListener ==
  \/ make \/ unsafeMake \/ unsafeMakeNoAbort \/ try_end
  \/ run_succeed \/ run_fail \/ run_failWith \/ run_sync
  \/ run_flatMap \/ flatMap_onResult \/ run_andThen \/ andThen_onResult
  \/ run_asResult \/ asResult_onResult
  \/ run_async \/ async_onAbort \/ async_resume
  \/ AbortController_abort \/ dispatchEvent \/ setTimeout_fire
  \/ HandleImpl_emit \/ HandleImpl_emit_clear
  \/ HandleImpl_unsafeAbort \/ owner_unsafeAbort
  \/ run_uninterruptible \/ run_fork \/ queueMicrotask_run
  \/ forkSignal_onAbort \/ signal_removeEventListener
  \/ run_raceAll \/ raceAll_for \/ raceAll_onDone \/ raceAll_onDone_end
  \/ run_raceAllFirst \/ raceAllFirst_onDone
  \/ run_forEach \/ run_forEachConcurrent \/ forEachConcurrent_pump
  \/ forEachConcurrent_while \/ forEachConcurrent_cb \/ forEachConcurrent_cb_end
  \/ forEachConcurrent_onResult
  \/ HandleImpl_addObserver \/ run_async_observer \/ async_listen
  \/ HandleImpl_await_observer \/ HandleImpl_await_evaluate
SpecListener == InitListener /\ [][NextListener]_vars

\* the combinator of the program
ListenerSubject == prog.self.self.self
\* the listeners on the signal of the root handle that are not the listener
\* of a sleep the program ends with
ListenersLeft ==
  { i \in DOMAIN ctrls[1].listeners :
      ~ \E id \in DOMAIN asyncs :
          /\ ctrls[1].listeners[i] = async_onAbortL(id)
          /\ asyncs[id].k = emitK(1) }

\* C36: between two turns, when the combinator has delivered its result (the
\* program has noted it) and the root handle has none yet, the signal of the
\* root handle has no listener but that of the sleep the program is in
C36_listeners_removed ==
  (Idle /\ microtasks = <<>> /\ Afters # {} /\ handles[1].result = undefined)
    => ListenersLeft = {}

----------------------------------------------------------------------------
\* gen over a generator that yields effects which succeed or fail, at once
\* or delayed, and then returns the last value it was sent, or throws

MaxYields == 3

\* the i-th yielded effect
GenChild(c, i) ==
  LET self == IF c.ok THEN succeed(Val(10 + i)) ELSE fail(Val(20 + i)) IN
  IF c.async THEN delay(self, 1) ELSE self

GenPrograms ==
  { gen(Generator([i \in DOMAIN cs |-> GenChild(cs[i], i)], throws)) :
      cs \in UNION { [1..n -> [ok : BOOLEAN, async : BOOLEAN]] : n \in 0..MaxYields },
      throws \in BOOLEAN }

InitGen == \E effect \in GenPrograms : InitWith(effect)
NextGen ==
  \/ make \/ unsafeMakeNoAbort \/ try_end \/ catch
  \/ run_succeed \/ run_fail \/ run_failWith \/ run_sync \/ run_andThen \/ andThen_onResult
  \/ run_async \/ async_onAbort \/ async_resume
  \/ AbortController_abort \/ dispatchEvent \/ setTimeout_fire
  \/ HandleImpl_emit \/ HandleImpl_emit_clear
  \/ HandleImpl_unsafeAbort \/ owner_unsafeAbort \/ run_uninterruptible
  \/ run_gen \/ gen_run \/ gen_while \/ gen_return \/ gen_catch \/ gen_run_end
  \/ gen_cb
SpecGen == InitGen /\ [][NextGen]_vars

\* what the log says about gen 1, the only one of these programs: the calls
\* of iterator.next, the results of the yielded effects, the calls of onResult
GenNexts == { i \in Events : log[i].ev = "next" }
GenReports == { i \in Events : IsDone(i, "gen") }
GenDeliveries == { i \in Events : IsOnResult(i, "gen") }
\* what the generator function does after its last yield
GenEnd ==
  IF prog.f.throws THEN Left(FailureUnexpected(Val(13)))
  ELSE IF prog.f.yields = <<>> THEN Right(Val(0))
  ELSE Right(Val(10 + Len(prog.f.yields)))

\* C39: the generator is advanced for the n+1-th time only when its n-th
\* yielded effect has delivered Ok(a) and a is what next is given, never
\* after a yielded effect delivered Err and never after it has returned; gen
\* delivers at most once, the Err of a yielded effect if there is one and
\* otherwise what the generator ends with; and when nothing remains to run it
\* has delivered, and that is the handle's result
C39_gen ==
  /\ \A i \in GenNexts :
       /\ ~log[i].done
       /\ log[i].advanced = Cardinality({ j \in GenNexts : j < i })
       /\ \A j \in GenReports : j < i => log[j].r.tag = "Right"
       /\ Cardinality({ j \in GenReports : j < i }) = log[i].advanced
       /\ log[i].advanced > 0 =>
            \E j \in GenReports :
              /\ j < i /\ log[j].child = log[i].advanced
              /\ log[j].r = Right(log[i].value)
  /\ \A j \in GenReports :
       /\ \E i \in GenNexts : i < j /\ log[i].advanced = log[j].child - 1
       /\ \A l \in GenReports : log[l].child = log[j].child => l = j
  /\ Cardinality(GenDeliveries) <= 1
  /\ \A d \in GenDeliveries :
       IF \E j \in GenReports : log[j].r.tag = "Left"
         THEN \E j \in GenReports : j < d /\ log[j].r = log[d].r
         ELSE /\ log[d].r = GenEnd
              /\ Cardinality(GenNexts) = Len(prog.f.yields) + 1
  /\ Quiescent =>
       \E d \in GenDeliveries : handles[1].result = log[d].r

\* the generator yielded an effect that succeeded at once, one that succeeded
\* a turn later and a third that succeeded at once, was advanced four times,
\* and gen has delivered the value of the third
C39_witness ==
  /\ Quiescent /\ aborts = 0
  /\ Len(prog.f.yields) = 3 /\ ~prog.f.throws
  /\ prog.f.yields[1] = succeed(Val(11))
  /\ prog.f.yields[2] = delay(succeed(Val(12)), 1)
  /\ prog.f.yields[3] = succeed(Val(13))
  /\ Cardinality(GenNexts) = 4
  /\ handles[1].result = Right(Val(13))

----------------------------------------------------------------------------
\* All the programs together

Init ==
  \/ InitRace \/ InitForEach \/ InitPreflight \/ InitAcquireUseRelease \/ InitScope
  \/ InitRaceFirst \/ InitForked \/ InitHandle \/ InitScoped
  \/ InitCatch \/ InitReify \/ InitFork \/ InitAwait \/ InitAsync
  \/ InitScopeCalls \/ InitScopeFork \/ InitListener \/ InitGen
Next ==
  \/ NextRace \/ NextForEach \/ NextPreflight \/ NextAcquireUseRelease \/ NextScope
  \/ NextRaceFirst \/ NextForked \/ NextHandle \/ NextScoped
  \/ NextCatch \/ NextReify \/ NextFork \/ NextAwait \/ NextAsync
  \/ NextScopeCalls \/ NextScopeFork \/ NextListener \/ NextGen
Spec == Init /\ [][Next]_vars

====
